---- MODULE Spec2Model ----
(***************************************************************************)
(* A model of the useDocGenerator hook of araqode/repodocs                 *)
(* (src/src/hooks/useDocGenerator.ts) and of the map-reduce flow           *)
(* (src/src/ai/flows/generate-documentation.ts).                           *)
(*                                                                         *)
(* React state is modelled as the variables below.  A handler reads the    *)
(* state of the render it was created in: an asynchronous handler keeps    *)
(* that snapshot across its awaits (a stale closure), while functional     *)
(* updaters setX(prev => ...) act on the latest state.  Every atomic       *)
(* action is one run-to-completion segment of the event loop: from a user  *)
(* event or a network reply to the next awaited network call.              *)
(***************************************************************************)
EXTENDS Integers, Sequences, FiniteSets, TLC

VARIABLES
  \* ---- React state of the hook (useDocGenerator.ts:132-150)
  documentation, generatedRepoUrl, isLoading, isFetchingRepo, isFetchingContent,
  repoTrees, repoPaths, fileSelection, expandedFolders, logs, aiInteractions,
  cacheStatus, loadedPaths, fileSizes, isPromptModalOpen, editablePrompt,
  \* ---- collaborators
  remote,         \* the provider's repository: listings and file bodies, fixed
  localStorage,   \* the persistent store behind getCachedData / setCachedData
  toasts,         \* title of the notification shown last
  \* ---- asynchronous handlers in flight
  ops,            \* directory-listing fetches and folder-selection traversals
  run,            \* the generation run (confirmAndGenerate) and its locals
  event,          \* what the last step did (a merge, a commit), for the properties
  \* ---- inputs and results of the pure functions under test
  fsNodes, fsSel, fsResult,
  keyed,          \* a repository id and a path as text, and the cache keys made of them
  flow,           \* one invocation of generateDocumentationFlow
  gestures        \* number of user gestures made so far

vars == << documentation, generatedRepoUrl, isLoading, isFetchingRepo,
           isFetchingContent, repoTrees, repoPaths, fileSelection,
           expandedFolders, logs, aiInteractions, cacheStatus, loadedPaths,
           fileSizes, isPromptModalOpen, editablePrompt, localStorage, toasts, ops,
           run, event, fsNodes, fsSel, fsResult, keyed, flow, gestures, remote >>

hookVars == << documentation, generatedRepoUrl, isLoading, isFetchingRepo,
               isFetchingContent, repoTrees, repoPaths, fileSelection,
               expandedFolders, logs, aiInteractions, cacheStatus, loadedPaths,
               fileSizes, isPromptModalOpen, editablePrompt, localStorage, toasts, ops,
               run, event >>

pureVars == << fsNodes, fsSel, fsResult, keyed >>

-----------------------------------------------------------------------------
(* Bounds of the model *)

\* widest list of sibling nodes drawn for the pure functions
MaxWidth == 2
\* deepest nesting of directories drawn for the pure functions
MaxDepth == 2
\* most asynchronous tree handlers (fetches, traversals) in flight at once
MaxOps == 2
\* most files handed to one invocation of generateDocumentationFlow
MaxFlowFiles == 3
\* most user gestures on the repository tree in one behaviour
MaxGestures == 5
\* longest repository name drawn for the cache keys, in characters
MaxNameLen == 3
\* longest path segment drawn for the cache keys, in characters
MaxSegmentLen == 2

-----------------------------------------------------------------------------
(* JavaScript objects used as maps: functions with a finite domain *)

EmptyMap == << >>

Has(m, k) == k \in DOMAIN m

Put(m, k, v) == [x \in (DOMAIN m) \cup {k} |-> IF x = k THEN v ELSE m[x]]

Del(m, k) == [x \in (DOMAIN m) \ {k} |-> m[x]]

\* m[k] || {}
GetMap(m, k) == IF Has(m, k) THEN m[k] ELSE EmptyMap

\* m[k] read as a condition: undefined is falsy
Truthy(m, k) == Has(m, k) /\ m[k] = TRUE

\* {...prev, [r]: {...(prev[r] || {}), [k]: v}}
Put2(m, r, k, v) == Put(m, r, Put(GetMap(m, r), k, v))

-----------------------------------------------------------------------------
(* FileNode (useDocGenerator.ts:631-638).  A file has no children; a        *)
(* directory starts with children = [] (fetchRepoContents, line 73).        *)

FileNode(p) == [type |-> "file", path |-> p, children |-> << >>]

DirNode(p, c) == [type |-> "dir", path |-> p, children |-> c]

-----------------------------------------------------------------------------
(* getFolderSelectionState (useDocGenerator.ts:548-573) *)

\* the state of the two flags after visiting one file (lines 557-562)
VisitFile(acc, currentSelection, path) ==
  IF Truthy(currentSelection, path)
    THEN [acc EXCEPT !.hasSelectedFile = TRUE]
    ELSE IF Has(currentSelection, path) /\ currentSelection[path] = FALSE
      THEN [acc EXCEPT !.hasUnselectedFile = TRUE]
      ELSE acc

\* the inner traverse (lines 554-567): items are visited in order, the loop
\* breaks once both flags are set, a directory is descended into
RECURSIVE SelTraverse(_, _, _)
SelTraverse(items, currentSelection, acc) ==
  IF items = << >> \/ (acc.hasSelectedFile /\ acc.hasUnselectedFile)
    THEN acc
    ELSE LET item == Head(items)
             after == IF item.type = "file"
                        THEN VisitFile(acc, currentSelection, item.path)
                        ELSE SelTraverse(item.children, currentSelection, acc)
         IN  SelTraverse(Tail(items), currentSelection, after)

\* lines 549 and 570-572: "true", "false" or "indeterminate"
GetFolderSelectionState(currentSelection, nodes) ==
  IF nodes = << >>
    THEN "false"
    ELSE LET acc == SelTraverse(nodes, currentSelection,
                      [hasSelectedFile |-> FALSE, hasUnselectedFile |-> FALSE])
         IN  IF acc.hasSelectedFile /\ acc.hasUnselectedFile THEN "indeterminate"
             ELSE IF acc.hasSelectedFile /\ ~acc.hasUnselectedFile THEN "true"
             ELSE "false"

-----------------------------------------------------------------------------
(* Helpers over node forests *)

\* the paths of the files at or below the given nodes
RECURSIVE FilesUnder(_)
FilesUnder(nodes) ==
  IF nodes = << >> THEN {}
  ELSE LET item == Head(nodes)
       IN  (IF item.type = "file" THEN {item.path} ELSE FilesUnder(item.children))
             \cup FilesUnder(Tail(nodes))

\* every node at or below the given nodes
RECURSIVE NodesUnder(_)
NodesUnder(nodes) ==
  IF nodes = << >> THEN {}
  ELSE {Head(nodes)} \cup NodesUnder(Head(nodes).children) \cup NodesUnder(Tail(nodes))

\* the directory nodes at or below the given nodes
RECURSIVE DirsUnder(_)
DirsUnder(nodes) ==
  IF nodes = << >> THEN {}
  ELSE LET item == Head(nodes)
       IN  (IF item.type = "dir" THEN {item} \cup DirsUnder(item.children) ELSE {})
             \cup DirsUnder(Tail(nodes))

-----------------------------------------------------------------------------
(* Inputs of the pure functions: every forest of bounded width and depth,   *)
(* a node's path being the list of child positions that leads to it, and    *)
(* every selection map over its files (a flag is true, false or absent).    *)

RECURSIVE NodesAt(_, _)
RECURSIVE ForestsOfWidth(_, _, _)

\* the nodes that may sit at path p with d levels of directories left
NodesAt(d, p) ==
  {FileNode(p)} \cup
  (IF d >= 1
     THEN UNION { {DirNode(p, c) : c \in ForestsOfWidth(d - 1, p, n)} : n \in 0..MaxWidth }
     ELSE {DirNode(p, << >>)})

\* the lists of exactly n sibling nodes below path p
ForestsOfWidth(d, p, n) ==
  IF n = 0 THEN { << >> }
  ELSE { Append(f, x) : f \in ForestsOfWidth(d, p, n - 1), x \in NodesAt(d, Append(p, n)) }

Forests == UNION { ForestsOfWidth(MaxDepth - 1, << >>, n) : n \in 0..MaxWidth }

\* every map from some of the given paths to a flag
SelectionMaps(paths) == UNION { [S -> BOOLEAN] : S \in SUBSET paths }

-----------------------------------------------------------------------------
(* The remote repository: one repository whose listings are fixed.          *)

Repos == {"o/r"}

\* an absent path argument (the repository root); falsy like undefined
NoPath == ""

\* path || 'root' (lines 232, 237, 251)
PathOrRoot(path) == IF path = NoPath THEN "root" ELSE path

\* what the provider lists for a directory, already mapped to FileNodes by
\* fetchRepoContents (lines 68-74): directories come with children = []
ProviderListing(repoPath, path) ==
  IF Has(remote.listing, path) THEN remote.listing[path] ELSE << >>

\* a repository with nested directories
NestedRemote ==
  [listing |-> (NoPath :> << DirNode("a", << >>), FileNode("f") >>)
            @@ ("a" :> << DirNode("a/b", << >>), FileNode("a/h") >>)
            @@ ("a/b" :> << FileNode("a/b/k") >>),
   body |-> ("f" :> "# Widgets") @@ ("a/h" :> "export h") @@ ("a/b/k" :> "")]

\* a repository with two files at its root, one of them empty
FlatRemote ==
  [listing |-> (NoPath :> << FileNode("f"), FileNode("g") >>),
   body |-> ("f" :> "# Widgets") @@ ("g" :> "")]

\* a repository with two directories side by side
SiblingRemote ==
  [listing |-> (NoPath :> << DirNode("a", << >>), DirNode("c", << >>) >>)
            @@ ("a" :> << FileNode("a/h") >>)
            @@ ("c" :> << FileNode("c/x") >>),
   body |-> ("a/h" :> "export h") @@ ("c/x" :> "export x")]

\* how a listing request can end: the array, a non-success status
\* (fetchFromGitHubApi, line 50) or a payload that is no array (line 64)
ListingOutcomes == {"ok", "status", "notArray"}

\* `repo-cache-${repoPath}-${path || 'root'}` (line 232)
RepoCacheKey(repoPath, path) == << "repo-cache-", repoPath, "-", PathOrRoot(path) >>

\* `file-content-cache-${repoPath}/${path}` (lines 372-373)
FileCacheKey(repoPath, path) == << "file-content-cache-", repoPath, "/", path >>

\* the value getCachedData returns when it returns nothing
NoValue == [kind |-> "undefined", nodes |-> << >>, content |-> "", size |-> 0]

\* a stored text that JSON.parse rejects
CorruptValue == [kind |-> "corrupt", nodes |-> << >>, content |-> "", size |-> 0]

\* a read that hands the stored text to its caller unparsed
GetCachedData_raw(store, key) == IF Has(store, key) THEN store[key] ELSE NoValue

\* getCachedData (lines 160-167): the stored value parsed, or undefined when
\* there is none or when reading it throws; the catch only logs to the
\* console, so the store is left as it is
GetCachedData(store, key) ==
  IF Has(store, key) /\ store[key].kind # "corrupt" THEN store[key] ELSE NoValue

\* setCachedData (lines 169-175): a failing write is logged and dropped
SetCachedData(store, key, data, writeOk) == IF writeOk THEN Put(store, key, data) ELSE store

ListingValue(nodes) == [kind |-> "listing", nodes |-> nodes, content |-> "", size |-> 0]

ContentValue(content, size) == [kind |-> "content", nodes |-> << >>, content |-> content, size |-> size]

-----------------------------------------------------------------------------
(* The part of the state the tree handlers write, as one record *)

World ==
  [repoTrees |-> repoTrees, fileSelection |-> fileSelection,
   cacheStatus |-> cacheStatus, loadedPaths |-> loadedPaths,
   localStorage |-> localStorage, toasts |-> toasts]

(* updateTreeWithNewNodes (lines 264-293) *)

\* lines 265-270: the closure's selection of the repository, each listed file
\* seeded with its own flag or false
RECURSIVE SeedSelection(_, _)
SeedSelection(newRepoSelection, nodes) ==
  IF nodes = << >> THEN newRepoSelection
  ELSE LET node == Head(nodes)
       IN  SeedSelection(
             IF node.type = "file"
               THEN Put(newRepoSelection, node.path, Truthy(newRepoSelection, node.path))
               ELSE newRepoSelection,
             Tail(nodes))

\* a merge that adds the listing to the children already shown
WithChildren_added(item, nodes) == [item EXCEPT !.children = @ \o nodes]

\* {...item, children: nodes} (line 282)
WithChildren(item, nodes) == [item EXCEPT !.children = nodes]

\* a merge that keeps no children of the nodes beside the one at parentPath
UpdateChildren_collapsing(items, parentPath, nodes) ==
  [i \in 1..Len(items) |->
     IF items[i].path = parentPath
       THEN WithChildren(items[i], nodes)
       ELSE [items[i] EXCEPT !.children = << >>]]

\* lines 279-289: the children of the node at parentPath are replaced
RECURSIVE UpdateChildren(_, _, _)
UpdateChildren(items, parentPath, nodes) ==
  [i \in 1..Len(items) |->
     IF items[i].path = parentPath
       THEN WithChildren(items[i], nodes)
       ELSE IF items[i].children # << >>
         THEN [items[i] EXCEPT !.children = UpdateChildren(items[i].children, parentPath, nodes)]
         ELSE items[i]]

\* selSnap is fileSelection[repoPath] || {} of the render the handler was
\* created in; setFileSelection and setRepoTrees use functional updaters
UpdateTreeWithNewNodes(w, selSnap, repoPath, nodes, parentPath) ==
  [w EXCEPT
     !.fileSelection = Put(w.fileSelection, repoPath, SeedSelection(selSnap, nodes)),
     !.repoTrees =
        IF parentPath = NoPath
          THEN Put(w.repoTrees, repoPath, nodes)
          ELSE Put(w.repoTrees, repoPath,
                   UpdateChildren(GetMap(w.repoTrees, repoPath), parentPath, nodes))]

(* handleFetchRepoStructure (lines 231-262), split at its await *)

\* lines 232-244: up to the await.  A cached listing (any array is truthy)
\* is merged at once; otherwise the path is marked loaded and the request
\* goes out.
FetchStructureStart(w, selSnap, repoPath, path) ==
  LET cached == GetCachedData(w.localStorage, RepoCacheKey(repoPath, path))
      hit    == cached.kind # "undefined"
      marked == IF path # NoPath
                  THEN [w EXCEPT !.loadedPaths = Put2(@, repoPath, path, TRUE)]
                  ELSE w
  IN  IF hit
        THEN [hit |-> TRUE, result |-> cached.nodes,
              w |-> LET m == UpdateTreeWithNewNodes(w, selSnap, repoPath, cached.nodes, path)
                        c == [m EXCEPT !.cacheStatus = Put2(@, repoPath, PathOrRoot(path), TRUE)]
                    IN  IF path # NoPath
                          THEN [c EXCEPT !.loadedPaths = Put2(@, repoPath, path, TRUE)]
                          ELSE c]
        ELSE [hit |-> FALSE, result |-> << >>, w |-> marked]

\* the error branch taking the failed request for an empty listing
FetchStructureDone_emptied(w, selSnap, repoPath, path, outcome, writeOk) ==
  LET result == IF outcome = "ok" THEN ProviderListing(repoPath, path) ELSE << >>
      m == UpdateTreeWithNewNodes(w, selSnap, repoPath, result, path)
  IN  [m EXCEPT
         !.localStorage = SetCachedData(@, RepoCacheKey(repoPath, path),
                                        ListingValue(result), writeOk),
         !.cacheStatus = Put2(@, repoPath, PathOrRoot(path), FALSE),
         !.toasts = IF outcome = "ok" THEN @ ELSE "Failed to fetch repository."]

\* the error branch without the reset of line 260
FetchStructureDone_stillLoaded(w, selSnap, repoPath, path, outcome, writeOk) ==
  IF outcome = "ok"
    THEN LET result == ProviderListing(repoPath, path)
             m == UpdateTreeWithNewNodes(w, selSnap, repoPath, result, path)
         IN  [m EXCEPT
                !.localStorage = SetCachedData(@, RepoCacheKey(repoPath, path),
                                               ListingValue(result), writeOk),
                !.cacheStatus = Put2(@, repoPath, PathOrRoot(path), FALSE)]
    ELSE [w EXCEPT !.toasts = "Failed to fetch repository."]

\* lines 248-261: after the await.  On success the listing is merged and
\* cached; on an error a notification is shown and the path is unmarked.
FetchStructureDone(w, selSnap, repoPath, path, outcome, writeOk) ==
  IF outcome = "ok"
    THEN LET result == ProviderListing(repoPath, path)
             m == UpdateTreeWithNewNodes(w, selSnap, repoPath, result, path)
         IN  [m EXCEPT
                !.localStorage = SetCachedData(@, RepoCacheKey(repoPath, path),
                                               ListingValue(result), writeOk),
                !.cacheStatus = Put2(@, repoPath, PathOrRoot(path), FALSE)]
    ELSE LET t == [w EXCEPT !.toasts = "Failed to fetch repository."]
         IN  IF path # NoPath
               THEN [t EXCEPT !.loadedPaths = Put2(@, repoPath, path, FALSE)]
               ELSE t

-----------------------------------------------------------------------------
(* Asynchronous tree handlers in flight.  Each keeps the closure of the     *)
(* render it was started in: selSnap = fileSelection[repoPath] || {},       *)
(* loadedSnap = loadedPaths[repoPath] || {}.                                *)

NoEvent ==
  [kind |-> "none", repo |-> "", roots |-> {}, failed |-> {}, touched |-> {},
   isSelected |-> FALSE, failedNow |-> {}]

\* the listing request for this path has just failed (line 253)
FailedEvent(e, repoPath, path, outcome) ==
  IF outcome = "ok" THEN e ELSE [e EXCEPT !.failedNow = {<< repoPath, path >>}]

MergeEvent(repoPath) == [NoEvent EXCEPT !.kind = "merge", !.repo = repoPath]

NewOp(kind, repoPath, path) ==
  [kind |-> kind, repo |-> repoPath, path |-> path,
   selSnap |-> GetMap(fileSelection, repoPath),
   loadedSnap |-> GetMap(loadedPaths, repoPath),
   isSelected |-> FALSE, newSel |-> EmptyMap, todo |-> << >>,
   roots |-> {}, failed |-> {}, touched |-> {}]

RemoveAt(seq, i) == [j \in 1..(Len(seq) - 1) |-> IF j < i THEN seq[j] ELSE seq[j + 1]]

Range(seq) == {seq[i] : i \in DOMAIN seq}

\* the inner traverse of toggleFolderSelection (lines 509-526) run up to its
\* next awaited provider request, or to the commit of line 529.  op.todo is the
\* list of nodes still to visit, depth first.
RECURSIVE Traverse(_, _)
Traverse(w, op) ==
  IF op.todo = << >>
    THEN [done |-> TRUE, op |-> op,
          w |-> [w EXCEPT !.fileSelection = Put(@, op.repo, op.newSel)]]
    ELSE
      LET item == Head(op.todo)
          rest == Tail(op.todo)
      IN  IF item.type = "file"
            THEN Traverse(w, [op EXCEPT !.newSel = Put(@, item.path, op.isSelected),
                                        !.touched = @ \cup {item.path},
                                        !.todo = rest])
            ELSE IF op.isSelected /\ item.children = << >>
                      /\ ~Truthy(op.loadedSnap, item.path)
              THEN LET s == FetchStructureStart(w, op.selSnap, op.repo, item.path)
                   IN  IF s.hit
                         THEN Traverse(s.w, [op EXCEPT !.todo = s.result \o rest])
                         ELSE [done |-> FALSE, w |-> s.w,
                               op |-> [op EXCEPT !.path = item.path, !.todo = rest]]
              ELSE Traverse(w, [op EXCEPT !.todo = item.children \o rest])

\* the handlers' writes take effect
Apply(w) ==
  /\ repoTrees' = w.repoTrees
  /\ fileSelection' = w.fileSelection
  /\ cacheStatus' = w.cacheStatus
  /\ loadedPaths' = w.loadedPaths
  /\ localStorage' = w.localStorage
  /\ toasts' = w.toasts

-----------------------------------------------------------------------------
(* The state after construction (lines 132-150), with an empty store *)

Null == "<null>"

\* defaultPrompt (line 34)
DefaultPrompt == "Please provide a high-level overview of the project."

\* the locals of confirmAndGenerate: where it waits (pc), the selected files,
\* the loop index, fetchedFiles and summaries, and the editablePrompt of its
\* closure (goal); and, for the properties, the
\* calls it has issued, the number of selected files resolved so far, how the
\* last awaited call ended, the files whose provider request failed and the
\* store as it was when the run started
IdleRun ==
  [pc |-> "idle", files |-> << >>, i |-> 0, fetchedFiles |-> << >>,
   summaries |-> << >>, error |-> "", calls |-> << >>, resolved |-> 0,
   reply |-> "", failed |-> {}, cacheAtStart |-> EmptyMap, goal |-> ""]

\* the locals of generateDocumentationFlow: where it waits, input.files, the
\* state of each summary promise, summaries and the returned output
IdleFlow == [pc |-> "idle", files |-> << >>, results |-> << >>,
             summaries |-> << >>, output |-> ""]

\* the React state after construction
StateInit ==
  /\ documentation = Null
  /\ generatedRepoUrl = ""
  /\ isLoading = FALSE
  /\ isFetchingRepo = EmptyMap
  /\ isFetchingContent = FALSE
  /\ repoTrees = EmptyMap
  /\ repoPaths = << >>
  /\ fileSelection = EmptyMap
  /\ expandedFolders = EmptyMap
  /\ logs = << >>
  /\ aiInteractions = << >>
  /\ cacheStatus = EmptyMap
  /\ loadedPaths = EmptyMap
  /\ fileSizes = EmptyMap
  /\ isPromptModalOpen = FALSE
  /\ editablePrompt = DefaultPrompt
  /\ toasts = "none"
  /\ ops = << >>
  /\ run = IdleRun
  /\ event = NoEvent

HookInit == StateInit /\ localStorage = EmptyMap

\* no cache key under test
NoKeys == [repoPath |-> << >>, path |-> << >>, listingKey |-> << >>, fileKey |-> << >>]

PureIdle ==
  /\ fsNodes = << >>
  /\ fsSel = EmptyMap
  /\ fsResult = "none"
  /\ keyed = NoKeys

genState == << logs, isLoading, isFetchingContent, fileSizes, isPromptModalOpen,
              editablePrompt, run >>

-----------------------------------------------------------------------------
(* Repositories: onAddRepo (lines 295-312), removeRepository (lines 197-229) *)

\* resetGenerationState (lines 191-195)
ResetGenerationState ==
  /\ documentation' = Null
  /\ generatedRepoUrl' = ""
  /\ aiInteractions' = << >>

\* a form that can be submitted again while a submission is running
IsSubmitting_never == FALSE

\* the form's submit button is disabled while a submission is running
\* (RepoInput.tsx:41, form.formState.isSubmitting)
IsSubmitting == \E i \in DOMAIN ops : ops[i].kind = "add"

\* onAddRepo up to its await; with a cached root listing it runs to its end
OnAddRepo(r) ==
  /\ ~IsSubmitting
  /\ IF r \in Range(repoPaths)
       THEN /\ toasts' = "Repository already added."
            /\ event' = NoEvent
            /\ UNCHANGED << documentation, generatedRepoUrl, aiInteractions, isFetchingRepo,
                            repoTrees, repoPaths, fileSelection, expandedFolders,
                            cacheStatus, loadedPaths, localStorage, ops, genState >>
       ELSE LET s == FetchStructureStart(World, GetMap(fileSelection, r), r, NoPath)
            IN  /\ s.hit \/ Len(ops) < MaxOps
                /\ ResetGenerationState
                /\ Apply(s.w)
                /\ isFetchingRepo' = Put(isFetchingRepo, r, ~s.hit)
                /\ repoPaths' = IF s.hit THEN Append(repoPaths, r) ELSE repoPaths
                /\ ops' = IF s.hit THEN ops ELSE Append(ops, NewOp("add", r, NoPath))
                /\ event' = IF s.hit THEN MergeEvent(r) ELSE NoEvent
                /\ UNCHANGED << expandedFolders, genState >>

\* the root listing request of an onAddRepo returns (lines 307-311)
AddRepoFetched(i, outcome, writeOk) ==
  /\ i \in DOMAIN ops
  /\ ops[i].kind = "add"
  /\ LET op == ops[i]
     IN  /\ Apply(FetchStructureDone(World, op.selSnap, op.repo, NoPath, outcome, writeOk))
         /\ repoPaths' = Append(repoPaths, op.repo)
         /\ isFetchingRepo' = Put(isFetchingRepo, op.repo, FALSE)
         /\ event' = IF outcome = "ok" THEN MergeEvent(op.repo)
                      ELSE FailedEvent(NoEvent, op.repo, NoPath, outcome)
  /\ ops' = RemoveAt(ops, i)
  /\ UNCHANGED << documentation, generatedRepoUrl, aiInteractions, expandedFolders, genState >>

RemoveRepository(r) ==
  /\ r \in Range(repoPaths)
  /\ repoPaths' = SelectSeq(repoPaths, LAMBDA p : p # r)
  /\ repoTrees' = Del(repoTrees, r)
  /\ fileSelection' = Del(fileSelection, r)
  /\ expandedFolders' = Del(expandedFolders, r)
  /\ cacheStatus' = Del(cacheStatus, r)
  /\ loadedPaths' = Del(loadedPaths, r)
  /\ fileSizes' = Del(fileSizes, r)
  /\ event' = NoEvent
  /\ UNCHANGED << documentation, generatedRepoUrl, aiInteractions, isFetchingRepo,
                  localStorage, toasts, ops, logs, isLoading, isFetchingContent,
                  isPromptModalOpen, editablePrompt, run >>

-----------------------------------------------------------------------------
(* Selection and expansion *)

\* a toggle that forgets the other flags of the repository
ToggleSelection_alone(r, path, isSelected) ==
  /\ r \in Range(repoPaths)
  /\ path \in FilesUnder(GetMap(repoTrees, r))
  /\ fileSelection' = Put(fileSelection, r, Put(EmptyMap, path, isSelected))
  /\ event' = [NoEvent EXCEPT !.kind = "toggle", !.repo = r, !.touched = {path},
                              !.isSelected = isSelected]
  /\ UNCHANGED << documentation, generatedRepoUrl, aiInteractions, isFetchingRepo,
                  repoTrees, repoPaths, expandedFolders, cacheStatus, loadedPaths,
                  localStorage, toasts, ops, genState >>

\* toggleSelection (lines 496-504), on a file shown in the tree
ToggleSelection(r, path, isSelected) ==
  /\ r \in Range(repoPaths)
  /\ path \in FilesUnder(GetMap(repoTrees, r))
  /\ fileSelection' = Put2(fileSelection, r, path, isSelected)
  /\ event' = [NoEvent EXCEPT !.kind = "toggle", !.repo = r, !.touched = {path},
                              !.isSelected = isSelected]
  /\ UNCHANGED << documentation, generatedRepoUrl, aiInteractions, isFetchingRepo,
                  repoTrees, repoPaths, expandedFolders, cacheStatus, loadedPaths,
                  localStorage, toasts, ops, genState >>

\* toggleFolderExpansion (lines 533-546), on a directory shown in the tree
ToggleFolderExpansion(r, node) ==
  /\ r \in Range(repoPaths)
  /\ node \in DirsUnder(GetMap(repoTrees, r))
  /\ LET fetch == node.children = << >> /\ ~Truthy(GetMap(loadedPaths, r), node.path)
         s     == FetchStructureStart(World, GetMap(fileSelection, r), r, node.path)
     IN  IF fetch
           THEN /\ s.hit \/ Len(ops) < MaxOps
                /\ Apply(s.w)
                /\ ops' = IF s.hit THEN ops ELSE Append(ops, NewOp("expand", r, node.path))
                /\ event' = IF s.hit THEN [MergeEvent(r) EXCEPT !.kind = "expandMerge"]
                                     ELSE NoEvent
           ELSE /\ Apply(World)
                /\ ops' = ops
                /\ event' = NoEvent
  /\ expandedFolders' = Put2(expandedFolders, r, node.path,
                             ~Truthy(GetMap(expandedFolders, r), node.path))
  /\ UNCHANGED << documentation, generatedRepoUrl, aiInteractions, isFetchingRepo,
                  repoPaths, genState >>

\* the listing request of an expansion returns (lines 248-261)
ExpansionFetched(i, outcome, writeOk) ==
  /\ i \in DOMAIN ops
  /\ ops[i].kind = "expand"
  /\ LET op == ops[i]
     IN  /\ Apply(FetchStructureDone(World, op.selSnap, op.repo, op.path, outcome, writeOk))
         /\ event' = IF outcome = "ok" THEN MergeEvent(op.repo)
                      ELSE FailedEvent(NoEvent, op.repo, op.path, outcome)
  /\ ops' = RemoveAt(ops, i)
  /\ UNCHANGED << documentation, generatedRepoUrl, aiInteractions, isFetchingRepo,
                  repoPaths, expandedFolders, genState >>

\* the node lists the tree view hands to toggleFolderSelection: the children
\* of a directory, or the whole tree (toggleAllSelectionForRepo, lines 575-579)
SelectableNodeLists(r) ==
  (IF Has(repoTrees, r) THEN {repoTrees[r]} ELSE {})
    \cup {d.children : d \in DirsUnder(GetMap(repoTrees, r))}

CommitEvent(op) ==
  [kind |-> "commit", repo |-> op.repo, roots |-> op.roots, failed |-> op.failed,
   touched |-> op.touched, isSelected |-> op.isSelected, failedNow |-> {}]

\* toggleFolderSelection (lines 506-531) up to its first awaited request
ToggleFolderSelection(r, nodes, isSelected) ==
  /\ r \in Range(repoPaths)
  /\ nodes \in SelectableNodeLists(r)
  /\ LET op  == [NewOp("select", r, NoPath) EXCEPT
                   !.isSelected = isSelected,
                   !.newSel = GetMap(fileSelection, r),
                   !.todo = nodes,
                   !.roots = {n.path : n \in Range(nodes)}]
         res == Traverse(World, op)
     IN  /\ res.done \/ Len(ops) < MaxOps
         /\ Apply(res.w)
         /\ ops' = IF res.done THEN ops ELSE Append(ops, res.op)
         /\ event' = IF res.done THEN CommitEvent(res.op) ELSE NoEvent
  /\ UNCHANGED << documentation, generatedRepoUrl, aiInteractions, isFetchingRepo,
                  repoPaths, expandedFolders, genState >>

\* a listing request of a folder-selection traversal returns (line 516)
TraversalFetched(i, outcome, writeOk) ==
  /\ i \in DOMAIN ops
  /\ ops[i].kind = "select"
  /\ LET op  == ops[i]
         w   == FetchStructureDone(World, op.selSnap, op.repo, op.path, outcome, writeOk)
         nxt == IF outcome = "ok"
                  THEN [op EXCEPT !.todo = ProviderListing(op.repo, op.path) \o @]
                  ELSE [op EXCEPT !.failed = @ \cup {op.path}]
         res == Traverse(w, nxt)
     IN  /\ Apply(res.w)
         /\ ops' = IF res.done THEN RemoveAt(ops, i) ELSE [ops EXCEPT ![i] = res.op]
         /\ event' = FailedEvent(IF res.done THEN CommitEvent(res.op) ELSE NoEvent,
                                 op.repo, op.path, outcome)
  /\ UNCHANGED << documentation, generatedRepoUrl, aiInteractions, isFetchingRepo,
                  repoPaths, expandedFolders, genState >>

AllNodeLists == UNION {SelectableNodeLists(r) : r \in Repos}

AllDirs == UNION {DirsUnder(GetMap(repoTrees, r)) : r \in Repos}

AllFiles == UNION {FilesUnder(GetMap(repoTrees, r)) : r \in Repos}

\* a user gesture on the tree view, counted against the bound
Gesture ==
  /\ gestures < MaxGestures
  /\ gestures' = gestures + 1
  /\ UNCHANGED << fsNodes, fsSel, fsResult, keyed, flow, remote >>

\* a reply of the provider or of the AI service
Reply == UNCHANGED << gestures, fsNodes, fsSel, fsResult, keyed, flow, remote >>

TreeNext ==
  \/ \E r \in Repos : Gesture /\ OnAddRepo(r)
  \/ \E r \in Repos : Gesture /\ RemoveRepository(r)
  \/ \E r \in Repos, p \in AllFiles, b \in BOOLEAN : Gesture /\ ToggleSelection(r, p, b)
  \/ \E r \in Repos, n \in AllDirs : Gesture /\ ToggleFolderExpansion(r, n)
  \/ \E r \in Repos, n \in AllNodeLists, b \in BOOLEAN :
        Gesture /\ ToggleFolderSelection(r, n, b)
  \/ \E i \in 1..MaxOps, o \in ListingOutcomes, ok \in BOOLEAN :
        Reply /\ AddRepoFetched(i, o, ok)
  \/ \E i \in 1..MaxOps, o \in ListingOutcomes, ok \in BOOLEAN :
        Reply /\ ExpansionFetched(i, o, ok)
  \/ \E i \in 1..MaxOps, o \in ListingOutcomes, ok \in BOOLEAN :
        Reply /\ TraversalFetched(i, o, ok)

TreeInit == HookInit /\ PureIdle /\ flow = IdleFlow /\ gestures = 0 /\ remote = NestedRemote

SpecTree == TreeInit /\ [][TreeNext]_vars

\* the same handlers on the repository with two directories side by side
SiblingInit == HookInit /\ PureIdle /\ flow = IdleFlow /\ gestures = 0 /\ remote = SiblingRemote

SpecSiblings == SiblingInit /\ [][TreeNext]_vars

-----------------------------------------------------------------------------
(* getFolderSelectionState applied to every bounded forest and selection map *)

FolderStateInit ==
  /\ HookInit /\ flow = IdleFlow /\ gestures = 0 /\ remote = NestedRemote
  /\ fsNodes \in Forests
  /\ fsSel \in SelectionMaps(FilesUnder(fsNodes))
  /\ fsResult = "none"
  /\ keyed = NoKeys

FolderSelectionStateCall ==
  /\ fsResult = "none"
  /\ fsResult' = GetFolderSelectionState(fsSel, fsNodes)
  /\ UNCHANGED << hookVars, fsNodes, fsSel, keyed, flow, gestures, remote >>

FolderStateNext == FolderSelectionStateCall

SpecFolderState == FolderStateInit /\ [][FolderStateNext]_vars

\* C1: getFolderSelectionState returns selected iff there is a descendant file
\* and every descendant file's flag is true, unselected iff no descendant
\* file's flag is true, and indeterminate in every other case.
C1_FolderStateFollowsFlags ==
  LET files    == FilesUnder(fsNodes)
      allTrue  == files # {} /\ \A p \in files : Truthy(fsSel, p)
      noneTrue == \A p \in files : ~Truthy(fsSel, p)
  IN  fsResult # "none" =>
        /\ (fsResult = "true") <=> allTrue
        /\ (fsResult = "false") <=> noneTrue
        /\ (fsResult = "indeterminate") <=> (~allTrue /\ ~noneTrue)

-----------------------------------------------------------------------------
(* Properties of the tree handlers *)

\* a directory shown without children although the provider lists some
Unfetched(r, d) == d.children = << >> /\ ProviderListing(r, d.path) # << >>

\* the directories of the current tree at or below the nodes with these paths
DirsBelowPaths(r, paths) ==
  UNION { DirsUnder(<< n >>) : n \in {m \in NodesUnder(GetMap(repoTrees, r)) : m.path \in paths} }

\* C2: when toggleFolderSelection(repo, nodes, true) commits, every file it
\* flagged true is in a listing that has been fetched and merged, and no
\* directory under the given nodes is left unfetched (a directory whose
\* request failed during the traversal is not counted).
C2_SelectAllFetchesEveryDirectory ==
  (event.kind = "commit" /\ event.isSelected) =>
    /\ \A p \in event.touched : p \in FilesUnder(GetMap(repoTrees, event.repo))
    /\ \A d \in DirsBelowPaths(event.repo, event.roots) :
         d.path \in event.failed \/ ~Unfetched(event.repo, d)

\* C3: a merge of a directory listing keeps the selection flag of every file
\* that is still present and the expanded flag of every directory that is
\* still present.
C3_MergeKeepsFlags ==
  [][ event'.kind \in {"merge", "expandMerge"} =>
        LET r == event'.repo
        IN  /\ \A p \in FilesUnder(GetMap(repoTrees', r)) :
                 Has(GetMap(fileSelection, r), p) =>
                   /\ Has(GetMap(fileSelection', r), p)
                   /\ fileSelection'[r][p] = fileSelection[r][p]
            /\ event'.kind = "merge" =>
                 \A d \in DirsUnder(GetMap(repoTrees', r)) :
                   Has(GetMap(expandedFolders, r), d.path) =>
                     /\ Has(GetMap(expandedFolders', r), d.path)
                     /\ expandedFolders'[r][d.path] = expandedFolders[r][d.path] ]_vars

-----------------------------------------------------------------------------
(* Generation: onGenerateClick (lines 314-345), confirmAndGenerate (347-494) *)

\* the paths of the files of a forest, in listing order
RECURSIVE FileSeq(_)
FileSeq(nodes) ==
  IF nodes = << >> THEN << >>
  ELSE (IF Head(nodes).type = "file" THEN << Head(nodes).path >>
        ELSE FileSeq(Head(nodes).children)) \o FileSeq(Tail(nodes))

RECURSIVE SetToSeq(_)
SetToSeq(S) ==
  IF S = {} THEN << >>
  ELSE LET x == CHOOSE y \in S : TRUE IN << x >> \o SetToSeq(S \ {x})

\* .map(([path]) => ({repoPath, path})) (line 366)
RECURSIVE FilesOf(_, _)
FilesOf(r, paths) ==
  IF paths = << >> THEN << >>
  ELSE << [repoPath |-> r, path |-> Head(paths)] >> \o FilesOf(r, Tail(paths))

\* every entry of the selection map taken as selected, whatever its flag
SelectedOf_all(r) ==
  FilesOf(r, SetToSeq(DOMAIN GetMap(fileSelection, r)))

\* Object.entries(selection) filtered by the flag (lines 363-366).  The keys
\* of the files of the tree come in the order their listing put them in.
SelectedOf(r) ==
  LET sel    == GetMap(fileSelection, r)
      inTree == SelectSeq(FileSeq(GetMap(repoTrees, r)), LAMBDA p : Truthy(sel, p))
      others == {p \in DOMAIN sel : sel[p] /\ p \notin FilesUnder(GetMap(repoTrees, r))}
  IN  FilesOf(r, inTree \o SetToSeq(others))

\* lines 361-368: repositories in list order, files in map order
RECURSIVE SelectedFilesToFetch(_)
SelectedFilesToFetch(repos) ==
  IF repos = << >> THEN << >>
  ELSE SelectedOf(Head(repos)) \o SelectedFilesToFetch(Tail(repos))

\* `${file.repoPath}/${file.path}` (line 372)
FilePath(file) == << file.repoPath, file.path >>

\* how a file request can end (fetchFileContent, lines 78-91): base64 content,
\* another encoding, or an error of the request
FileOutcomes == {"ok", "notBase64", "status"}

\* `Error fetching content for ${path}.` (line 89)
ErrorContent(path) ==
  CASE path = "f" -> "Error fetching content for f."
    [] path = "g" -> "Error fetching content for g."
    [] OTHER      -> "Error fetching content for another file."

\* what fetchFileContent returns: it never throws
FetchFileContent(path, outcome) ==
  CASE outcome = "ok"        -> remote.body[path]
    [] outcome = "notBase64" -> "Could not decode file content."
    [] OTHER                 -> ErrorContent(path)

\* new Blob([content]).size (line 386)
BlobSize(content) ==
  CASE content = ""          -> 0
    [] content = "# Widgets" -> 9
    [] content = "export h"  -> 8
    [] content = "Could not decode file content." -> 30
    [] OTHER                 -> 29

\* how a call of the AI service can end (callGeminiAPI, lines 96-128): a
\* parsed response, a non-success status, or text that does not parse
AiOutcomes == {"ok", "status", "parse"}

\* the message of the error callGeminiAPI throws (lines 115, 126)
GeminiError(outcome) ==
  IF outcome = "status"
    THEN "Gemini API request failed with status 500. See console for details."
    ELSE "Could not parse the response from the AI. The format was unexpected."

\* the body the AI service sends with a non-success status; it goes to the
\* console (line 114)
ProviderErrorBody == "API key not valid. Please pass a valid API key."

Undefined == "<undefined>"

\* the documentation field of a parsed synthesis response
DocumentationFields == {"# Widgets documentation", "", Undefined}

\* a value read as a condition
TruthyText(x) == x # "" /\ x # Undefined /\ x # Null

Log(tag, arg) == [tag |-> tag, arg |-> arg]

NoFile == << "", "" >>

Call(kind, file, n) == [kind |-> kind, file |-> file, n |-> n, goal |-> ""]

\* User's Goal: "${editablePrompt}" (line 455): the prompt of the closure as
\* it is
SynthesisGoal(prompt) == prompt

SummarizeRequest(file) ==
  [kind |-> "summarize", path |-> file.path, content |-> file.content, summaries |-> << >>,
   goal |-> ""]

\* synthesizeDocumentationPrompt (lines 449-466)
SynthesizeRequest(summaries, prompt) ==
  [kind |-> "synthesize", path |-> NoFile, content |-> "", summaries |-> summaries,
   goal |-> SynthesisGoal(prompt)]

\* the parsed response of a summarization call
SummaryResponse(file) == [path |-> file.path, summary |-> "summary", documentation |-> Undefined]

SynthesisResponse(doc) == [path |-> NoFile, summary |-> Undefined, documentation |-> doc]

\* the part of the state confirmAndGenerate writes, as one record
Gen ==
  [run |-> run, logs |-> logs, aiInteractions |-> aiInteractions,
   documentation |-> documentation, isLoading |-> isLoading,
   isFetchingContent |-> isFetchingContent, fileSizes |-> fileSizes,
   localStorage |-> localStorage, toasts |-> toasts]

ApplyGen(g) ==
  /\ run' = g.run
  /\ logs' = g.logs
  /\ aiInteractions' = g.aiInteractions
  /\ documentation' = g.documentation
  /\ isLoading' = g.isLoading
  /\ isFetchingContent' = g.isFetchingContent
  /\ fileSizes' = g.fileSizes
  /\ localStorage' = g.localStorage
  /\ toasts' = g.toasts

\* a failure report that replaces the transcript by the error entry
GenerationFailed_fresh(g, message) ==
  [g EXCEPT !.logs = << Log("[ERROR]", message) >>,
            !.toasts = "Uh oh! Something went wrong.",
            !.documentation = Null,
            !.isLoading = FALSE,
            !.run.pc = "failed",
            !.run.error = message]

\* a failure report without the finally of lines 491-493
GenerationFailed_loading(g, message) ==
  [g EXCEPT !.logs = Append(@, Log("[ERROR]", message)),
            !.toasts = "Uh oh! Something went wrong.",
            !.documentation = Null,
            !.run.pc = "failed",
            !.run.error = message]

\* the catch and finally of lines 481-493
GenerationFailed(g, message) ==
  [g EXCEPT !.logs = Append(@, Log("[ERROR]", message)),
            !.toasts = "Uh oh! Something went wrong.",
            !.documentation = Null,
            !.isLoading = FALSE,
            !.run.pc = "failed",
            !.run.error = message]

\* the loop of lines 422-447 at file g.run.i, up to the awaited AI call; after
\* the last file, lines 449-468 up to the awaited synthesis call
SummarizeLoopFinished(r) == r.i > Len(r.fetchedFiles)

SummarizeNext(g) ==
  IF SummarizeLoopFinished(g.run)
    THEN [g EXCEPT !.logs = Append(@, Log("[AI] Synthesizing final documentation...", NoFile)),
                   !.run.pc = "synthesizing",
                   !.run.calls = Append(@, [Call("synthesize", NoFile, Len(g.run.summaries))
                                              EXCEPT !.goal = SynthesisGoal(g.run.goal)])]
    ELSE LET file == g.run.fetchedFiles[g.run.i]
         IN  [g EXCEPT !.logs = Append(@, Log("Summarizing file:", file.path)),
                       !.run.pc = "summarizing",
                       !.run.calls = Append(@, Call("summarize", file.path, 0))]

\* lines 401-417: the end of step 1
AfterFetch(g) ==
  LET g1 == [g EXCEPT !.logs = Append(@, Log("Step 1: Finished fetching file contents.", NoFile)),
                      !.isFetchingContent = FALSE]
  IN  IF g.run.fetchedFiles = << >>
        THEN [g1 EXCEPT !.toasts = "Failed to fetch content",
                        !.isLoading = FALSE,
                        !.run.pc = "failed",
                        !.run.error = "NoContentFetched"]
        ELSE SummarizeNext(
               [g1 EXCEPT !.logs = @ \o << Log("Step 2: Starting documentation generation with AI...", NoFile),
                                           Log("[AI] Summarizing file(s)...", NoFile) >>,
                          !.run.i = 1])

\* the fetch loop leaving after its first file
FetchLoopFinished_first(r) == r.i > Len(r.files) \/ r.i > 1

\* the loop of lines 370-400 from file g.run.i on, up to the awaited provider
\* request: a cached entry with non-empty content is used at once
FetchLoopFinished(r) == r.i > Len(r.files)

RECURSIVE FetchLoop(_)
FetchLoop(g) ==
  IF FetchLoopFinished(g.run)
    THEN AfterFetch(g)
    ELSE
      LET file   == g.run.files[g.run.i]
          cached == GetCachedData(g.localStorage, FileCacheKey(file.repoPath, file.path))
      IN  IF cached.kind # "undefined" /\ cached.content # ""
            THEN FetchLoop(
                   [g EXCEPT !.run.fetchedFiles =
                                Append(@, [path |-> FilePath(file), content |-> cached.content]),
                             !.fileSizes = Put2(@, file.repoPath, file.path, cached.size),
                             !.logs = Append(@, Log("[CACHE] Using cached content for", FilePath(file))),
                             !.run.resolved = @ + 1,
                             !.run.i = @ + 1])
            ELSE [g EXCEPT !.logs = Append(@, Log("[API] Fetching", FilePath(file))),
                           !.run.pc = "fetching",
                           !.run.calls = Append(@, Call("readFile", FilePath(file), 0))]

\* repoPaths.map(p => `https://github.com/${p}`).join(', ') (line 353)
RECURSIVE JoinUrls(_)
JoinUrls(paths) ==
  IF paths = << >> THEN ""
  ELSE IF Len(paths) = 1 THEN "https://github.com/" \o Head(paths)
  ELSE "https://github.com/" \o Head(paths) \o ", " \o JoinUrls(Tail(paths))

\* a generate button that is disabled only while the contents are fetched
GenerateDisabled_fetching == isFetchingContent

\* the generate button is disabled during a run (ActionBar.tsx:32)
GenerateDisabled == isLoading \/ isFetchingContent

\* the confirm button of the prompt dialog is disabled during a run
\* (ActionBar.tsx:121)
ConfirmDisabled == isLoading

\* onGenerateClick (lines 314-345), with a Gemini key configured
OnGenerateClick ==
  /\ ~GenerateDisabled
  /\ repoPaths # << >>
  /\ IF SelectedFilesToFetch(repoPaths) = << >>
       THEN toasts' = "No files selected" /\ UNCHANGED isPromptModalOpen
       ELSE isPromptModalOpen' = TRUE /\ UNCHANGED toasts
  /\ event' = NoEvent
  /\ UNCHANGED << documentation, generatedRepoUrl, isLoading, isFetchingRepo,
                  isFetchingContent, repoTrees, repoPaths, fileSelection,
                  expandedFolders, logs, aiInteractions, cacheStatus, loadedPaths,
                  fileSizes, localStorage, ops, run, editablePrompt >>

\* the prompts the user may leave in the dialog: the default one, one of
\* their own, or none
Prompts == {DefaultPrompt, "Focus on the API endpoints.", ""}

\* the textarea of the prompt dialog (ActionBar.tsx:109-115)
SetEditablePrompt(p) ==
  /\ isPromptModalOpen
  /\ editablePrompt' = p
  /\ event' = NoEvent
  /\ UNCHANGED << documentation, generatedRepoUrl, isLoading, isFetchingRepo,
                  isFetchingContent, repoTrees, repoPaths, fileSelection,
                  expandedFolders, logs, aiInteractions, cacheStatus, loadedPaths,
                  fileSizes, isPromptModalOpen, localStorage, toasts, ops, run >>

\* confirmAndGenerate from the prompt dialog, up to its first awaited call
ConfirmAndGenerate ==
  /\ isPromptModalOpen
  /\ ~ConfirmDisabled
  /\ isPromptModalOpen' = FALSE
  /\ generatedRepoUrl' = JoinUrls(repoPaths)
  /\ ApplyGen(FetchLoop(
       [Gen EXCEPT !.isLoading = TRUE,
                   !.documentation = Null,
                   !.logs = << Log("Step 1: Fetching content for selected files...", NoFile) >>,
                   !.aiInteractions = << >>,
                   !.isFetchingContent = TRUE,
                   !.run = [IdleRun EXCEPT !.files = SelectedFilesToFetch(repoPaths),
                                           !.i = 1,
                                           !.cacheAtStart = localStorage,
                                           !.goal = editablePrompt]]))
  /\ event' = NoEvent
  /\ UNCHANGED << isFetchingRepo, repoTrees, repoPaths, fileSelection, expandedFolders,
                  cacheStatus, loadedPaths, ops, editablePrompt >>

\* lines 385-389 and the loop up to the next awaited call
FileFetchedGen(outcome, writeOk) ==
  LET file    == run.files[run.i]
      content == FetchFileContent(file.path, outcome)
      size    == BlobSize(content)
  IN  FetchLoop(
        [Gen EXCEPT !.run.reply = outcome,
                    !.run.failed = IF outcome = "status" THEN @ \cup {FilePath(file)} ELSE @,
                    !.run.fetchedFiles = Append(@, [path |-> FilePath(file), content |-> content]),
                    !.localStorage = SetCachedData(@, FileCacheKey(file.repoPath, file.path),
                                                   ContentValue(content, size), writeOk),
                    !.fileSizes = Put2(@, file.repoPath, file.path, size),
                    !.run.resolved = @ + 1,
                    !.run.i = @ + 1])

\* the provider answers the file request (lines 385-389)
FileFetched(outcome, writeOk) ==
  /\ run.pc = "fetching"
  /\ ApplyGen(FileFetchedGen(outcome, writeOk))
  /\ event' = NoEvent
  /\ UNCHANGED << generatedRepoUrl, isFetchingRepo, repoTrees, repoPaths, fileSelection,
                  expandedFolders, cacheStatus, loadedPaths, isPromptModalOpen, ops,
                  editablePrompt >>

\* callGeminiAPI throws unless the response is a success that parses
SummaryFailed(outcome) == outcome # "ok"

\* the AI service answers a summarization call (lines 444-446)
SummaryReturned(outcome) ==
  /\ run.pc = "summarizing"
  /\ LET file == run.fetchedFiles[run.i]
     IN  ApplyGen(
           IF ~SummaryFailed(outcome)
             THEN SummarizeNext(
                    [Gen EXCEPT !.run.reply = outcome,
                                !.aiInteractions =
                                   Append(@, [request |-> SummarizeRequest(file),
                                              response |-> SummaryResponse(file)]),
                                !.run.summaries = Append(@, SummaryResponse(file)),
                                !.run.i = @ + 1])
             ELSE GenerationFailed([Gen EXCEPT !.run.reply = outcome], GeminiError(outcome)))
  /\ event' = NoEvent
  /\ UNCHANGED << generatedRepoUrl, isFetchingRepo, repoTrees, repoPaths, fileSelection,
                  expandedFolders, cacheStatus, loadedPaths, isPromptModalOpen, ops,
                  editablePrompt >>

\* an empty documentation field taken as the document
DocumentAccepted_defined(doc) == doc # Undefined

\* lines 471-480: a truthy documentation field is the document
DocumentAccepted(doc) == TruthyText(doc)

\* the AI service answers the synthesis call (lines 468-493)
SynthesisReturned(outcome, doc) ==
  /\ run.pc = "synthesizing"
  /\ ApplyGen(
       IF outcome = "ok"
         THEN LET g == [Gen EXCEPT !.run.reply = outcome,
                                   !.aiInteractions =
                                      Append(@, [request |-> SynthesizeRequest(run.summaries, run.goal),
                                                 response |-> SynthesisResponse(doc)])]
              IN  IF DocumentAccepted(doc)
                    THEN [g EXCEPT !.documentation = doc,
                                   !.logs = Append(@, Log("Step 2: Documentation generated successfully!", NoFile)),
                                   !.toasts = "Success!",
                                   !.isLoading = FALSE,
                                   !.run.pc = "done"]
                    ELSE GenerationFailed(g, "The generated documentation is empty.")
         ELSE GenerationFailed([Gen EXCEPT !.run.reply = outcome], GeminiError(outcome)))
  /\ event' = NoEvent
  /\ UNCHANGED << generatedRepoUrl, isFetchingRepo, repoTrees, repoPaths, fileSelection,
                  expandedFolders, cacheStatus, loadedPaths, isPromptModalOpen, ops,
                  editablePrompt >>

\* the user's side of a run: gestures are not counted
Free == UNCHANGED << gestures, fsNodes, fsSel, fsResult, keyed, flow, remote >>

GenNext ==
  \/ \E r \in Repos : Free /\ OnAddRepo(r)
  \/ \E i \in 1..MaxOps, o \in ListingOutcomes, ok \in BOOLEAN :
        Reply /\ AddRepoFetched(i, o, ok)
  \/ \E r \in Repos, p \in AllFiles, b \in BOOLEAN : Free /\ ToggleSelection(r, p, b)
  \/ Free /\ OnGenerateClick
  \/ Free /\ ConfirmAndGenerate
  \/ \E o \in FileOutcomes, ok \in BOOLEAN : Reply /\ FileFetched(o, ok)
  \/ \E o \in AiOutcomes : Reply /\ SummaryReturned(o)
  \/ \E o \in AiOutcomes, d \in DocumentationFields : Reply /\ SynthesisReturned(o, d)

GenInit == HookInit /\ PureIdle /\ flow = IdleFlow /\ gestures = 0 /\ remote = FlatRemote

SpecGen == GenInit /\ [][GenNext]_vars

-----------------------------------------------------------------------------
(* A session with a second repository: repositories are added and removed    *)
(* before, during and after generation runs                                  *)

SessionRepos == Repos \cup {"o/s"}

SessionNext ==
  \/ \E r \in SessionRepos : Gesture /\ OnAddRepo(r)
  \/ \E i \in 1..MaxOps, o \in ListingOutcomes, ok \in BOOLEAN :
        Reply /\ AddRepoFetched(i, o, ok)
  \/ \E r \in SessionRepos : Gesture /\ RemoveRepository(r)
  \/ \E r \in Repos, p \in AllFiles, b \in BOOLEAN : Gesture /\ ToggleSelection(r, p, b)
  \/ Gesture /\ OnGenerateClick
  \/ Gesture /\ ConfirmAndGenerate
  \/ \E o \in FileOutcomes, ok \in BOOLEAN : Reply /\ FileFetched(o, ok)
  \/ \E o \in AiOutcomes : Reply /\ SummaryReturned(o)
  \/ \E o \in AiOutcomes, d \in DocumentationFields : Reply /\ SynthesisReturned(o, d)

SessionInit == HookInit /\ PureIdle /\ flow = IdleFlow /\ gestures = 0 /\ remote = FlatRemote

SpecSession == SessionInit /\ [][SessionNext]_vars

\* every awaited call of a run returns: the provider answers the file
\* request, the AI service answers the summarization and synthesis calls
RunRepliesArrive ==
  /\ WF_vars(\E o \in FileOutcomes, ok \in BOOLEAN : Reply /\ FileFetched(o, ok))
  /\ WF_vars(\E o \in AiOutcomes : Reply /\ SummaryReturned(o))
  /\ WF_vars(\E o \in AiOutcomes, d \in DocumentationFields : Reply /\ SynthesisReturned(o, d))

SpecSessionLive == SpecSession /\ RunRepliesArrive

-----------------------------------------------------------------------------
(* A session in which the user edits the goal prompt in the dialog *)

PromptNext ==
  \/ \E r \in Repos : Gesture /\ OnAddRepo(r)
  \/ \E i \in 1..MaxOps, o \in ListingOutcomes, ok \in BOOLEAN :
        Reply /\ AddRepoFetched(i, o, ok)
  \/ \E r \in Repos, p \in AllFiles, b \in BOOLEAN : Gesture /\ ToggleSelection(r, p, b)
  \/ Gesture /\ OnGenerateClick
  \/ \E p \in Prompts : Gesture /\ SetEditablePrompt(p)
  \/ Gesture /\ ConfirmAndGenerate
  \/ \E o \in FileOutcomes, ok \in BOOLEAN : Reply /\ FileFetched(o, ok)
  \/ \E o \in AiOutcomes : Reply /\ SummaryReturned(o)
  \/ \E o \in AiOutcomes, d \in DocumentationFields : Reply /\ SynthesisReturned(o, d)

PromptInit == HookInit /\ PureIdle /\ flow = IdleFlow /\ gestures = 0 /\ remote = FlatRemote

SpecPrompt == PromptInit /\ [][PromptNext]_vars

-----------------------------------------------------------------------------
(* A session that starts with entries already in the store, some of them     *)
(* corrupt: the store outlives the page                                      *)

\* what the store may hold under a key: nothing, a corrupt text, or a value
StoredUnder(key, values) ==
  {EmptyMap} \cup {(key :> v) : v \in values \cup {CorruptValue}}

InitialStores ==
  {a @@ b @@ c :
     a \in StoredUnder(RepoCacheKey("o/r", NoPath), {ListingValue(FlatRemote.listing[NoPath])}),
     b \in StoredUnder(FileCacheKey("o/r", "f"), {ContentValue("# Widgets", 9)}),
     c \in StoredUnder(FileCacheKey("o/r", "g"), {})}

CacheNext ==
  \/ \E r \in Repos : Gesture /\ OnAddRepo(r)
  \/ \E i \in 1..MaxOps, o \in ListingOutcomes, ok \in BOOLEAN :
        Reply /\ AddRepoFetched(i, o, ok)
  \/ \E r \in Repos, p \in AllFiles, b \in BOOLEAN : Gesture /\ ToggleSelection(r, p, b)
  \/ Gesture /\ OnGenerateClick
  \/ Gesture /\ ConfirmAndGenerate
  \/ \E o \in FileOutcomes, ok \in BOOLEAN : Reply /\ FileFetched(o, ok)
  \/ \E o \in AiOutcomes : Reply /\ SummaryReturned(o)
  \/ \E o \in AiOutcomes, d \in DocumentationFields : Reply /\ SynthesisReturned(o, d)

CacheInit ==
  /\ StateInit /\ PureIdle /\ flow = IdleFlow /\ gestures = 0 /\ remote = FlatRemote
  /\ localStorage \in InitialStores

SpecCache == CacheInit /\ [][CacheNext]_vars

-----------------------------------------------------------------------------
(* generateDocumentationFlow (generate-documentation.ts, lines 194-226) *)

FlowPaths == {"f", "g"}

RECURSIVE SeqsOfLen(_, _)
SeqsOfLen(S, n) ==
  IF n = 0 THEN {<< >>}
  ELSE {Append(q, x) : q \in SeqsOfLen(S, n - 1), x \in S}

\* input.files: any list of files of at most MaxFlowFiles entries
FlowInputs ==
  UNION {SeqsOfLen({[path |-> p, content |-> FlatRemote.body[p]] : p \in FlowPaths}, n) :
           n \in 0..MaxFlowFiles}

\* a summary promise: pending, or resolved with an output that is a summary
\* or null
PendingResult == [state |-> "pending", path |-> "", summary |-> ""]

ResolvedResult(file, out) ==
  IF out = "summary"
    THEN [state |-> "summary", path |-> file.path, summary |-> "summary"]
    ELSE [state |-> "null", path |-> "", summary |-> ""]

\* summaryResults.map(r => r.output!).filter(Boolean) (line 212)
RECURSIVE FilterOutputs(_)
FilterOutputs(results) ==
  IF results = << >> THEN << >>
  ELSE (IF Head(results).state = "summary"
          THEN << [path |-> Head(results).path, summary |-> Head(results).summary] >>
          ELSE << >>) \o FilterOutputs(Tail(results))

\* Promise.all has resolved (line 211): the synthesis prompt is called with
\* the summaries that are left
FlowSynthesize(f) ==
  [f EXCEPT !.summaries = FilterOutputs(f.results), !.pc = "synthesizing"]

FlowFrame == UNCHANGED << hookVars, fsNodes, fsSel, fsResult, keyed, gestures, remote >>

\* lines 206-209: one summary call per file, all started at once
FlowInvoke(files) ==
  /\ flow.pc = "idle"
  /\ LET f == [flow EXCEPT !.files = files,
                           !.results = [k \in 1..Len(files) |-> PendingResult],
                           !.pc = "summarizing"]
     IN  flow' = IF files = << >> THEN FlowSynthesize(f) ELSE f
  /\ FlowFrame

\* one summary call resolves, in any order
FlowSummaryResolved(i, out) ==
  /\ flow.pc = "summarizing"
  /\ i \in DOMAIN flow.results
  /\ flow.results[i].state = "pending"
  /\ LET f == [flow EXCEPT !.results[i] = ResolvedResult(flow.files[i], out)]
     IN  flow' = IF \A k \in DOMAIN f.results : f.results[k].state # "pending"
                   THEN FlowSynthesize(f)
                   ELSE f
  /\ FlowFrame

\* one summary call rejects: Promise.all rejects and the flow throws
FlowSummaryRejected(i) ==
  /\ flow.pc = "summarizing"
  /\ i \in DOMAIN flow.results
  /\ flow.results[i].state = "pending"
  /\ flow' = [flow EXCEPT !.pc = "failed"]
  /\ FlowFrame

\* lines 215-224: the synthesis call returns its output, or throws
FlowSynthesisReturned(out) ==
  /\ flow.pc = "synthesizing"
  /\ flow' = IF out = "error" THEN [flow EXCEPT !.pc = "failed"]
             ELSE [flow EXCEPT !.pc = "done", !.output = out]
  /\ FlowFrame

FlowNext ==
  \/ \E files \in FlowInputs : FlowInvoke(files)
  \/ \E i \in 1..MaxFlowFiles, out \in {"summary", "null"} : FlowSummaryResolved(i, out)
  \/ \E i \in 1..MaxFlowFiles : FlowSummaryRejected(i)
  \/ \E out \in {"# Widgets documentation", Null, "error"} : FlowSynthesisReturned(out)

FlowInit == HookInit /\ PureIdle /\ flow = IdleFlow /\ gestures = 0 /\ remote = FlatRemote

SpecFlow == FlowInit /\ [][FlowNext]_vars

-----------------------------------------------------------------------------
(* The properties of a generation run *)

Last(q) == q[Len(q)]

CallsOf(kind) == {k \in DOMAIN run.calls : run.calls[k].kind = kind}

StageOf(kind) == CASE kind = "readFile" -> 1 [] kind = "summarize" -> 2 [] OTHER -> 3

\* C4: in a run no summarization call is issued before every selected file is
\* resolved, and the synthesis call is issued only after every summarization
\* call of the run has completed: the calls come in stage order and each
\* stage starts with the whole result of the one before.
C4_StagesInOrder ==
  /\ \A a, b \in DOMAIN run.calls :
       a < b => /\ StageOf(run.calls[a].kind) <= StageOf(run.calls[b].kind)
                /\ run.calls[a].kind # "synthesize"
  /\ CallsOf("summarize") # {} =>
       /\ run.resolved = Len(run.files)
       /\ Len(run.fetchedFiles) = Len(run.files)
  /\ CallsOf("synthesize") # {} =>
       /\ Cardinality(CallsOf("summarize")) = Len(run.fetchedFiles)
       /\ Len(run.summaries) = Len(run.fetchedFiles)
       /\ run.calls[Len(run.calls)].n = Len(run.fetchedFiles)

C4_Witness ==
  /\ run.pc = "synthesizing"
  /\ Len(run.files) = 2
  /\ Cardinality(CallsOf("readFile")) = 2
  /\ Cardinality(CallsOf("summarize")) = 2

\* C5: whenever the synthesis call is issued, the summaries passed to it are
\* as many as the files summarization started with, and summary i is the
\* summary of file i.
C5_OneSummaryPerFile ==
  flow.pc \in {"synthesizing", "done"} =>
    /\ Len(flow.summaries) = Len(flow.files)
    /\ \A k \in DOMAIN flow.summaries : flow.summaries[k].path = flow.files[k].path

\* C6: a selected file whose provider request failed is recorded as a failure
\* in the transcript and is not in the batch of fetched files passed to
\* summarization.
C6_FailedFileExcluded ==
  \A file \in run.failed :
    /\ \A k \in DOMAIN run.fetchedFiles : run.fetchedFiles[k].path # file
    /\ \E k \in DOMAIN logs : logs[k].tag = "[ERROR]" /\ logs[k].arg = file

\* C7: when every selected file of a run has been resolved and the provider
\* request of each of them failed, the run is failed with NoContentFetched,
\* has issued no summarization or synthesis call, and the documentation is
\* null.
C7_NoContentFetched ==
  (/\ run.pc # "idle"
   /\ run.resolved = Len(run.files)
   /\ \A k \in DOMAIN run.files : FilePath(run.files[k]) \in run.failed) =>
    /\ run.pc = "failed"
    /\ run.error = "NoContentFetched"
    /\ CallsOf("summarize") = {} /\ CallsOf("synthesize") = {}
    /\ documentation = Null

\* a summarization call of the run has just failed
SummaryCallFailed ==
  /\ run.pc = "summarizing"
  /\ run' # run
  /\ run'.reply \in {"status", "parse"}

\* C8: when a summarization call fails the run is failed, no call follows the
\* failing one, the documentation is null, and the provider's error message
\* (for a response that does not parse, that it did not parse) is appended to
\* the transcript.
C8_ProviderMessageInTranscript ==
  [][SummaryCallFailed =>
       /\ run'.pc = "failed"
       /\ run'.calls = run.calls
       /\ documentation' = Null
       /\ logs' = Append(logs, Log("[ERROR]",
                    IF run'.reply = "status" THEN ProviderErrorBody ELSE GeminiError("parse")))]_vars

\* C9: when the synthesis call succeeds, the run is done with the
\* documentation field as the document exactly when the field is non-empty;
\* with an empty or missing field the run is failed (the generated
\* documentation is empty) and the documentation is null.
C9_EmptyDocumentFails ==
  [][(run.pc = "synthesizing" /\ run' # run /\ run'.reply = "ok") =>
       LET doc == Last(aiInteractions').response.documentation
       IN  IF doc = "" \/ doc = Undefined
             THEN /\ run'.pc = "failed"
                  /\ run'.error = "The generated documentation is empty."
                  /\ documentation' = Null
             ELSE /\ run'.pc = "done"
                  /\ documentation' = doc
                  /\ documentation' # Null]_vars

C9_Witness ==
  /\ run.pc = "failed"
  /\ run.reply = "ok"
  /\ run.error = "The generated documentation is empty."
  /\ Last(aiInteractions).response.documentation = ""
  /\ documentation = Null

\* C10: a run issues no provider readFile call for a file that an earlier run
\* fetched and wrote to the cache, whatever its content, and uses the cached
\* content for it.
C10_CachedFileNotFetchedAgain ==
  \A k \in DOMAIN run.files :
    LET file   == run.files[k]
        cached == GetCachedData(run.cacheAtStart, FileCacheKey(file.repoPath, file.path))
    IN  cached.kind # "undefined" =>
          /\ \A c \in CallsOf("readFile") : run.calls[c].file # FilePath(file)
          /\ k <= Len(run.fetchedFiles) => run.fetchedFiles[k].content = cached.content

-----------------------------------------------------------------------------
(* Fetch state of directories, and the frame of toggleSelection *)

\* the fetch state failed: marked not loaded by a failed request
FetchFailed(loaded, r, path) ==
  Has(GetMap(loaded, r), path) /\ loaded[r][path] = FALSE

\* the step flips the expanded flag of directory d: a toggleFolderExpansion
ExpansionStep(r, d) ==
  /\ Has(repoTrees, r)
  /\ expandedFolders' # expandedFolders
  /\ expandedFolders' = Put2(expandedFolders, r, d.path,
                             ~Truthy(GetMap(expandedFolders, r), d.path))

\* the directories of a tree at or below the nodes with these paths
DirsBelowIn(tree, paths) ==
  UNION { DirsUnder(<< n >>) : n \in {m \in NodesUnder(tree) : m.path \in paths} }

\* the directory at this path shows children in the tree
Merged(trees, r, path) ==
  \E d \in DirsUnder(GetMap(trees, r)) : d.path = path /\ d.children # << >>

\* C11: a failed listing request leaves the directory not loaded (its fetch
\* state is failed); a toggleFolderExpansion on a directory in that state that
\* shows no children issues a new request (or merges the cached listing), and
\* a toggleFolderSelection with selected = true that commits at once leaves no
\* such directory under its nodes.
C11_FailedFetchAllowsRetry ==
  /\ [](\A fp \in event.failedNow :
          fp[2] # NoPath => FetchFailed(loadedPaths, fp[1], fp[2]))
  /\ [][\A r \in Repos : \A d \in DirsUnder(GetMap(repoTrees, r)) :
          (ExpansionStep(r, d) /\ d.children = << >> /\ FetchFailed(loadedPaths, r, d.path)) =>
             \/ /\ Len(ops') = Len(ops) + 1
                /\ Last(ops').kind = "expand" /\ Last(ops').path = d.path
                /\ Truthy(GetMap(loadedPaths', r), d.path)
             \/ Merged(repoTrees', r, d.path)]_vars
  /\ [][(gestures' # gestures /\ event'.kind = "commit" /\ event'.isSelected) =>
          \A d \in DirsBelowIn(GetMap(repoTrees', event'.repo), event'.roots) :
             ~(d.children = << >> /\ FetchFailed(loadedPaths', event'.repo, d.path))]_vars

\* a retry in flight: the expansion was started with the directory marked
\* not loaded by an earlier failure
C11_Witness ==
  \E i \in DOMAIN ops :
    /\ ops[i].kind = "expand"
    /\ Has(ops[i].loadedSnap, ops[i].path)
    /\ ops[i].loadedSnap[ops[i].path] = FALSE
    /\ Truthy(GetMap(loadedPaths, ops[i].repo), ops[i].path)

\* C20: toggleSelection(repo, path, selected) sets the flag of (repo, path) to
\* selected and leaves every other flag, the trees, the expansion flags, the
\* fetch states and the handlers in flight as they are.
C20_ToggleSetsOneFlag ==
  [][event'.kind = "toggle" =>
       LET r == event'.repo
           p == CHOOSE q \in event'.touched : TRUE
       IN  /\ Truthy(GetMap(fileSelection', r), p) = event'.isSelected
           /\ Has(GetMap(fileSelection', r), p)
           /\ DOMAIN fileSelection' = DOMAIN fileSelection \cup {r}
           /\ \A r2 \in DOMAIN fileSelection \ {r} : fileSelection'[r2] = fileSelection[r2]
           /\ DOMAIN fileSelection'[r] = DOMAIN GetMap(fileSelection, r) \cup {p}
           /\ \A q \in DOMAIN GetMap(fileSelection, r) \ {p} :
                fileSelection'[r][q] = fileSelection[r][q]
           /\ repoTrees' = repoTrees
           /\ expandedFolders' = expandedFolders
           /\ loadedPaths' = loadedPaths
           /\ cacheStatus' = cacheStatus
           /\ ops' = ops]_vars

\* a file toggled while a listing request is in flight, other flags standing
C20_Witness ==
  /\ event.kind = "toggle"
  /\ ops # << >>
  /\ \E r \in DOMAIN fileSelection : Cardinality(DOMAIN fileSelection[r]) >= 2

\* C12: for every repository and directory path at most one listing request
\* is in flight at any time.
C12_OneFetchPerPath ==
  \A i, j \in DOMAIN ops :
    i # j => << ops[i].repo, ops[i].path >> # << ops[j].repo, ops[j].path >>

\* C13: ticking the checkbox of a directory that shows no children, is not
\* marked loaded and has a listing at the provider puts a request for that
\* listing in flight, or merges the cached listing with every file of it
\* flagged selected: it is not a step without effect.
C13_SelectFolderFetches ==
  [][\A r \in Repos : \A d \in DirsUnder(GetMap(repoTrees, r)) :
       (/\ gestures' # gestures
        /\ Unfetched(r, d)
        /\ ~Truthy(GetMap(loadedPaths, r), d.path)
        /\ ToggleFolderSelection(r, d.children, TRUE)) =>
          \/ \E k \in DOMAIN ops' : ops'[k].kind = "select" /\ ops'[k].path = d.path
          \/ /\ Merged(repoTrees', r, d.path)
             /\ \A p \in FilesUnder(ProviderListing(r, d.path)) :
                  Truthy(GetMap(fileSelection', r), p)]_vars

\* C14: when toggleFolderSelection(repo, nodes, s) commits and none of its
\* requests failed, every file under the given nodes in the resulting tree
\* has its flag equal to s.
C14_CommitFlagsEveryFile ==
  (event.kind = "commit" /\ event.failed = {}) =>
    \A n \in {m \in NodesUnder(GetMap(repoTrees, event.repo)) : m.path \in event.roots} :
      \A p \in FilesUnder(<< n >>) :
        /\ Has(GetMap(fileSelection, event.repo), p)
        /\ fileSelection[event.repo][p] = event.isSelected

-----------------------------------------------------------------------------
(* The retained results of a run, and what is appended during a run *)

IsPrefix(s, t) == Len(s) <= Len(t) /\ \A k \in 1..Len(s) : s[k] = t[k]

RunActive(r) == r.pc \in {"fetching", "summarizing", "synthesizing"}

\* the step is the start of a generation run (confirmAndGenerate)
RunStarts == isPromptModalOpen /\ ~isPromptModalOpen'

\* the transcript holds the entries of one run only, from its first entry on
Restarted(l) ==
  /\ l # << >>
  /\ l[1] = Log("Step 1: Fetching content for selected files...", NoFile)
  /\ \A k \in 2..Len(l) : l[k] # l[1]

\* C15: after a run has reached done, every step other than the start of the
\* next run leaves the Document and the transcript unchanged, and the start of
\* the next run clears both.
C15_ResultsRetainedUntilNextRun ==
  [][run.pc = "done" =>
       IF RunStarts
         THEN documentation' = Null /\ Restarted(logs')
         ELSE documentation' = documentation /\ logs' = logs]_vars

\* C16: while a run is in progress, and at the step that ends it, the AI
\* Interaction Record before the step is a prefix of the record after it,
\* whatever other user operation the step is.
C16_InteractionsAppendOnly ==
  [][RunActive(run) => IsPrefix(aiInteractions, aiInteractions')]_vars

\* C17: while a run is in progress, and at the step that ends it, the
\* transcript before the step is a prefix of the transcript after it, whatever
\* the step is; the start of a run is the only step that does not extend it.
C17_TranscriptAppendOnly ==
  [][/\ RunActive(run) => IsPrefix(logs, logs')
     /\ ~IsPrefix(logs, logs') => RunStarts /\ Restarted(logs')]_vars

\* a run that failed after a repository was added while it was in progress,
\* its transcript ending with the error entry
C17_Witness ==
  /\ run.pc = "failed"
  /\ Len(repoPaths) = 2
  /\ Len(logs) >= 3
  /\ Last(logs) = Log("[ERROR]", run.error)

-----------------------------------------------------------------------------
(* Failing reads and writes of the store *)

\* the text stored under the key cannot be deserialized
Corrupt(store, key) == Has(store, key) /\ store[key].kind = "corrupt"

\* the file the run is at, or has passed, in its fetch loop
Reached(r, k) == k <= r.resolved \/ (r.pc = "fetching" /\ k = r.i)

\* C18: a failing cache read is a miss and a failing cache write changes
\* nothing but the store.  Adding a repository whose stored listing is corrupt
\* issues the provider request and shows no notification; a selected file
\* whose stored content was corrupt when the run started is requested from
\* the provider; a listing reply, or a file reply, whose cache write fails
\* leaves the trees, flags, FetchStates, notifications, transcript and run as
\* the same reply with a successful write does.
C18_CacheFailuresHarmless ==
  /\ [][\A r \in Repos :
          (/\ OnAddRepo(r)
           /\ r \notin Range(repoPaths)
           /\ Corrupt(localStorage, RepoCacheKey(r, NoPath))) =>
             /\ Len(ops') = Len(ops) + 1
             /\ Last(ops').kind = "add" /\ Last(ops').repo = r
             /\ toasts' = toasts
             /\ repoTrees' = repoTrees]_vars
  /\ [](\A k \in DOMAIN run.files :
          (/\ Reached(run, k)
           /\ Corrupt(run.cacheAtStart, FileCacheKey(run.files[k].repoPath, run.files[k].path))) =>
             \E c \in CallsOf("readFile") : run.calls[c].file = FilePath(run.files[k]))
  /\ [][\A i \in DOMAIN ops : \A o \in ListingOutcomes :
          AddRepoFetched(i, o, FALSE) =>
            LET w == FetchStructureDone(World, ops[i].selSnap, ops[i].repo, NoPath, o, TRUE)
            IN  /\ repoTrees' = w.repoTrees
                /\ fileSelection' = w.fileSelection
                /\ cacheStatus' = w.cacheStatus
                /\ loadedPaths' = w.loadedPaths
                /\ toasts' = w.toasts]_vars
  /\ [][\A o \in FileOutcomes :
          FileFetched(o, FALSE) =>
            LET g == FileFetchedGen(o, TRUE)
            IN  /\ run' = g.run
                /\ logs' = g.logs
                /\ documentation' = g.documentation
                /\ fileSizes' = g.fileSizes
                /\ toasts' = g.toasts
                /\ isLoading' = g.isLoading]_vars

\* a run that requested a file whose stored content was corrupt, in a session
\* whose repository was added over a corrupt stored listing, and a write of
\* the fetched content that failed
C18_Witness ==
  /\ Corrupt(localStorage, RepoCacheKey("o/r", NoPath))
  /\ run.pc \in {"summarizing", "synthesizing", "done"}
  /\ \E k \in DOMAIN run.files :
        /\ Corrupt(run.cacheAtStart, FileCacheKey(run.files[k].repoPath, run.files[k].path))
        /\ Corrupt(localStorage, FileCacheKey(run.files[k].repoPath, run.files[k].path))
        /\ \E c \in CallsOf("readFile") : run.calls[c].file = FilePath(run.files[k])

\* C19: once a read has found the entry of a key corrupt, the store holds no
\* entry for that key: no listing request in flight, and no file request in
\* flight, has a corrupt entry under its key.
C19_CorruptEntryEvicted ==
  /\ \A i \in DOMAIN ops : ~Corrupt(localStorage, RepoCacheKey(ops[i].repo, ops[i].path))
  /\ run.pc = "fetching" =>
        ~Corrupt(localStorage, FileCacheKey(run.files[run.i].repoPath, run.files[run.i].path))

-----------------------------------------------------------------------------
(* The shape of the trees *)

\* the paths of every node at or below the given nodes, one entry per node
RECURSIVE PathSeq(_)
PathSeq(nodes) ==
  IF nodes = << >> THEN << >>
  ELSE << Head(nodes).path >> \o PathSeq(Head(nodes).children) \o PathSeq(Tail(nodes))

NoDuplicates(s) == \A i, j \in DOMAIN s : i # j => s[i] # s[j]

\* a list of nodes without their children
RECURSIVE Shallow(_)
Shallow(nodes) ==
  IF nodes = << >> THEN << >>
  ELSE << [type |-> Head(nodes).type, path |-> Head(nodes).path] >> \o Shallow(Tail(nodes))

\* the step is the successful reply to the listing request i of a directory
DirectoryListed(i) ==
  \E ok \in BOOLEAN : ExpansionFetched(i, "ok", ok) \/ TraversalFetched(i, "ok", ok)

-----------------------------------------------------------------------------
(* Errors shown to the user *)

\* the titles of the notifications that report an error (lines 255, 405, 486)
ErrorTitles ==
  {"Failed to fetch repository.", "Failed to fetch content", "Uh oh! Something went wrong."}

\* the step ends a listing request in an error
ListingFails == event'.failedNow # {}

\* the step ends the run in an error
RunFails == run.pc # "failed" /\ run'.pc = "failed"

\* C22: a step in which a listing request fails, or in which the run fails,
\* shows an error notification and writes an entry to the transcript, and a
\* failed run leaves neither loading flag set.
C22_ErrorsLoggedAndNotified ==
  [][/\ ListingFails => (toasts' \in ErrorTitles /\ Len(logs') > Len(logs))
     /\ RunFails =>
          /\ toasts' \in ErrorTitles
          /\ logs' # << >> /\ (RunStarts \/ Len(logs') > Len(logs))
          /\ ~isLoading' /\ ~isFetchingContent']_vars

-----------------------------------------------------------------------------
(* The goal of the synthesis call *)

\* C23: the goal of every synthesis call is the prompt the user left in the
\* dialog, or the default prompt when they left none; it is never empty.
C23_GoalNeverEmpty ==
  \A c \in CallsOf("synthesize") :
    /\ run.calls[c].goal # ""
    /\ run.calls[c].goal = IF run.goal # "" THEN run.goal ELSE DefaultPrompt

-----------------------------------------------------------------------------
(* A listing request that fails *)

ListingFailures == ListingOutcomes \ {"ok"}

\* the two maps of maps differ at most in the entry of path in repository r
SameExceptAt(m, n, r, path) ==
  \A q \in DOMAIN m \cup DOMAIN n :
    IF q = r
      THEN \A p \in (DOMAIN GetMap(m, q) \cup DOMAIN GetMap(n, q)) \ {path} :
             /\ Has(GetMap(m, q), p) /\ Has(GetMap(n, q), p)
             /\ m[q][p] = n[q][p]
      ELSE Has(m, q) /\ Has(n, q) /\ m[q] = n[q]

\* C24: a listing request that ends with a non-success status or with a
\* payload that is no array shows the error notification and leaves the trees,
\* the selection flags, the cache and the cache marks as they were; of the
\* FetchStates only the one of the requested directory may change.  When the
\* request belongs to a folder selection, the selection then goes on in the
\* same step: the failed fetch hands it the trees, flags and cache as they
\* were, and after the step the node of the directory and the cache entry of
\* its listing are as they were.
C24_FailedListingChangesNothing ==
  /\ [][\A i \in DOMAIN ops : \A o \in ListingFailures : \A ok \in BOOLEAN :
          (AddRepoFetched(i, o, ok) \/ ExpansionFetched(i, o, ok)) =>
             /\ repoTrees' = repoTrees
             /\ fileSelection' = fileSelection
             /\ localStorage' = localStorage
             /\ cacheStatus' = cacheStatus
             /\ toasts' = "Failed to fetch repository."
             /\ SameExceptAt(loadedPaths, loadedPaths', ops[i].repo, ops[i].path)]_vars
  /\ [][\A i \in DOMAIN ops : \A o \in ListingFailures : \A ok \in BOOLEAN :
          TraversalFetched(i, o, ok) =>
            LET r   == ops[i].repo
                key == RepoCacheKey(r, ops[i].path)
                w   == FetchStructureDone(World, ops[i].selSnap, r, ops[i].path, o, ok)
            IN  /\ w.repoTrees = repoTrees
                /\ w.fileSelection = fileSelection
                /\ w.localStorage = localStorage
                /\ w.cacheStatus = cacheStatus
                /\ SameExceptAt(loadedPaths, w.loadedPaths, r, ops[i].path)
                /\ \A n \in NodesUnder(GetMap(repoTrees', r)) :
                     n.path = ops[i].path => n \in NodesUnder(GetMap(repoTrees, r))
                /\ Has(localStorage', key) => (Has(localStorage, key) /\ localStorage'[key] = localStorage[key])
                /\ toasts' = "Failed to fetch repository."]_vars

\* the request for a directory has just failed in a repository that shows a
\* tree and has selection flags
C24_Witness ==
  \E fp \in event.failedNow :
    /\ fp[2] # NoPath
    /\ GetMap(repoTrees, fp[1]) # << >>
    /\ \E p \in DOMAIN GetMap(fileSelection, fp[1]) : fileSelection[fp[1]][p]
    /\ Has(GetMap(loadedPaths, fp[1]), fp[2]) /\ ~loadedPaths[fp[1]][fp[2]]

-----------------------------------------------------------------------------
(* The AI calls of a run and their record *)

\* the calls of the run made to the AI service, in the order they were issued
AiCalls == SelectSeq(run.calls, LAMBDA c : c.kind \in {"summarize", "synthesize"})

\* the AI calls of the run that have returned
ReturnedAiCalls ==
  Len(AiCalls) - (IF run.pc \in {"summarizing", "synthesizing"} THEN 1 ELSE 0)

\* C25: a run that is done has issued one summarization call per fetched
\* file, in fetched order, and then one synthesis call, and the record holds
\* one entry per call in that order; at any time of a run the record holds one
\* entry for every AI call that has returned.
C25_RecordHoldsEveryCall ==
  /\ run.pc = "done" =>
       LET n == Len(run.fetchedFiles)
       IN  /\ Len(AiCalls) = n + 1
           /\ \A k \in 1..n : AiCalls[k].kind = "summarize" /\ AiCalls[k].file = run.fetchedFiles[k].path
           /\ AiCalls[n + 1].kind = "synthesize"
           /\ Len(aiInteractions) = n + 1
           /\ \A k \in 1..n : /\ aiInteractions[k].request.kind = "summarize"
                              /\ aiInteractions[k].request.path = run.fetchedFiles[k].path
           /\ aiInteractions[n + 1].request.kind = "synthesize"
  /\ run.pc # "idle" => Len(aiInteractions) = ReturnedAiCalls

-----------------------------------------------------------------------------
(* The stages of a run *)

StageRank(pc) ==
  CASE pc = "idle"         -> 0
    [] pc = "fetching"     -> 1
    [] pc = "summarizing"  -> 2
    [] pc = "synthesizing" -> 3
    [] OTHER               -> 4

RunEnded == run.pc \in {"done", "failed"} /\ ~isLoading /\ ~isFetchingContent

\* C26: when every awaited call returns, a run that has started ends, done or
\* failed, with both loading flags reset; and a run never goes back to an
\* earlier stage: only the start of a run leaves done or failed.
C26_RunTerminatesInOrder ==
  /\ RunActive(run) ~> RunEnded
  /\ [][RunStarts \/ StageRank(run'.pc) >= StageRank(run.pc)]_vars
  /\ [](run.pc \in {"done", "failed"} => RunEnded)
  /\ [](RunActive(run) => isLoading)

\* a run has gone through the three stages and ended, done
C26_Witness ==
  /\ run.pc = "done" /\ RunEnded
  /\ CallsOf("readFile") # {} /\ CallsOf("summarize") # {} /\ CallsOf("synthesize") # {}

-----------------------------------------------------------------------------
(* Requests outstanding at once *)

\* the summarization calls of the flow that have not returned yet
FlowPending == {k \in DOMAIN flow.results : flow.results[k].state = "pending"}

\* the position of a file in the list of selected files of the run
PositionOf(file) == CHOOSE k \in DOMAIN run.files : FilePath(run.files[k]) = file

\* the calls of the run of one kind, in the order they were issued
CallSeq(kind) == SelectSeq(run.calls, LAMBDA c : c.kind = kind)

\* C27: in a generation run at most one summarization call is outstanding at
\* any time, in the hook and in the flow alike; the hook requests the files in
\* the order of the selection and summarizes them in the order they were
\* fetched.
C27_OneRequestAtATime ==
  /\ Cardinality(FlowPending) <= 1
  /\ \A a, b \in DOMAIN CallSeq("readFile") :
       a < b => PositionOf(CallSeq("readFile")[a].file) < PositionOf(CallSeq("readFile")[b].file)
  /\ \A k \in DOMAIN CallSeq("summarize") :
       CallSeq("summarize")[k].file = run.fetchedFiles[k].path

-----------------------------------------------------------------------------
(* A generate invocation during a run *)

\* C28 as stated: while a run is in flight a new generate invocation is
\* possible, either the generate button or the confirm button of the dialog
\* can be used, so that a new run starts over the one in flight.
C28_NewRunDuringRun ==
  RunActive(run) =>
    \/ ENABLED (OnGenerateClick /\ isPromptModalOpen')
    \/ ENABLED ConfirmAndGenerate

\* C28 amended: while a run is in flight the generate button is disabled and
\* the prompt dialog is closed, so that no generate invocation is possible;
\* every run starts when no run is in flight, and the Document, transcript and
\* loading flag are written by one run at a time.
C28_RunsDoNotOverlap ==
  /\ [](RunActive(run) => (GenerateDisabled /\ ~isPromptModalOpen /\ ConfirmDisabled))
  /\ [](RunActive(run) => (~ENABLED OnGenerateClick /\ ~ENABLED ConfirmAndGenerate))
  /\ [][RunStarts => ~RunActive(run)]_vars

\* a second run is in flight: it started with the file contents that an
\* earlier run had written to the store
C28_Witness ==
  /\ RunActive(run)
  /\ \E key \in DOMAIN run.cacheAtStart : run.cacheAtStart[key].kind = "content"

-----------------------------------------------------------------------------
(* Two repositories with the same layout, two directories side by side,     *)
(* browsed at the same time; the store has room, every cache write succeeds *)

ForestNext ==
  \/ \E r \in SessionRepos : Gesture /\ OnAddRepo(r)
  \/ \E r \in SessionRepos : Gesture /\ RemoveRepository(r)
  \/ \E r \in SessionRepos, n \in UNION {DirsUnder(GetMap(repoTrees, q)) : q \in SessionRepos} :
        Gesture /\ ToggleFolderExpansion(r, n)
  \/ \E i \in 1..MaxOps, o \in ListingOutcomes :
        Reply /\ AddRepoFetched(i, o, TRUE)
  \/ \E i \in 1..MaxOps, o \in ListingOutcomes :
        Reply /\ ExpansionFetched(i, o, TRUE)

SpecForest == SiblingInit /\ [][ForestNext]_vars

\* the forest without the children of the node at path
RECURSIVE Prune(_, _)
Prune(items, path) ==
  [i \in 1..Len(items) |->
     IF items[i].path = path
       THEN [items[i] EXCEPT !.children = << >>]
       ELSE [items[i] EXCEPT !.children = Prune(@, path)]]

\* the node at path in the forest, if there is one
NodeAt(items, path) == {n \in NodesUnder(items) : n.path = path}

\* from trees before to trees after, nothing differs but the children of the
\* node at path in repository r, which are the listing
OnlyChildrenReplaced(before, after, r, path) ==
  /\ Del(after, r) = Del(before, r)
  /\ Prune(GetMap(after, r), path) = Prune(GetMap(before, r), path)
  /\ \A n \in NodeAt(GetMap(after, r), path) : n.children = ProviderListing(r, path)

\* C29: merging the listing of a directory replaces the children of the node
\* at that path and nothing else: apart from those children the tree of the
\* repository is as before (the nodes beside it keep their subtrees, its
\* ancestors keep their other children), and the trees of the other
\* repositories are as before.  This holds for the reply to an expansion and
\* for an expansion served from the cache; a merged root listing replaces the
\* tree of its repository and leaves the other trees as they were.
C29_MergeReplacesOnlyChildren ==
  /\ [][\A i \in DOMAIN ops : \A ok \in BOOLEAN :
          ExpansionFetched(i, "ok", ok) =>
            OnlyChildrenReplaced(repoTrees, repoTrees', ops[i].repo, ops[i].path)]_vars
  /\ [][\A r \in SessionRepos : \A n \in DirsUnder(GetMap(repoTrees, r)) :
          (ToggleFolderExpansion(r, n) /\ event'.kind = "expandMerge") =>
            OnlyChildrenReplaced(repoTrees, repoTrees', r, n.path)]_vars
  /\ [][\A i \in DOMAIN ops : \A ok \in BOOLEAN :
          AddRepoFetched(i, "ok", ok) =>
            /\ Del(repoTrees', ops[i].repo) = Del(repoTrees, ops[i].repo)
            /\ GetMap(repoTrees', ops[i].repo) = ProviderListing(ops[i].repo, NoPath)]_vars

\* the listing of a directory has just been merged into a tree that shows
\* the children of the directory beside it, while another repository shows
\* an expanded directory of its own
C29_Witness ==
  /\ event.kind = "merge"
  /\ \E r \in SessionRepos, q \in SessionRepos :
       /\ q # r
       /\ \A d \in DirsUnder(GetMap(repoTrees, r)) : d.children # << >>
       /\ Cardinality(DirsUnder(GetMap(repoTrees, r))) = 2
       /\ \E d \in DirsUnder(GetMap(repoTrees, q)) : d.children # << >>

-----------------------------------------------------------------------------
(* Selection entries of the files shown *)

\* C30: every file shown in the tree of a repository has an entry of its own,
\* true or false, in the selection map of that repository.
C30_EveryFileHasAnEntry ==
  \A r \in Repos :
    \A path \in FilesUnder(GetMap(repoTrees, r)) :
      Has(GetMap(fileSelection, r), path)

-----------------------------------------------------------------------------
(* What a run reads and what it leaves alone *)

\* the (repository, path) pairs whose flag is true in the repositories listed
FlaggedIn(repos, selection) ==
  {rp \in Range(repos) \X UNION {DOMAIN GetMap(selection, q) : q \in Range(repos)} :
     Truthy(GetMap(selection, rp[1]), rp[2])}

\* the files the run has requested from the provider or taken from the cache
ProcessedFiles ==
  {run.calls[c].file : c \in CallsOf("readFile")}
    \cup {l.arg : l \in {m \in Range(logs) : m.tag = "[CACHE] Using cached content for"}}

\* a step of the run: its start or the return of one of its awaited calls
RunStep ==
  \/ RunStarts
  \/ RunActive(run) /\ run' # run

\* C31: a step of a generation run changes no tree, no selection flag, no
\* expansion flag and no FetchState.  The files of a run are the (repository,
\* path) pairs whose flag is true, in the repositories of the list, when the
\* run starts, each once; they stay the same for the whole run whatever is
\* toggled meanwhile, the run requests or takes from the cache no other file,
\* and once its fetch step is over it has processed every one of them.
C31_RunReadsSelectionAtStart ==
  /\ [][RunStep => /\ repoTrees' = repoTrees
                   /\ fileSelection' = fileSelection
                   /\ expandedFolders' = expandedFolders
                   /\ loadedPaths' = loadedPaths]_vars
  /\ [][RunStarts => /\ {FilePath(f) : f \in Range(run'.files)} = FlaggedIn(repoPaths, fileSelection)
                     /\ NoDuplicates(run'.files)]_vars
  /\ [][(RunActive(run) /\ ~RunStarts) => run'.files = run.files]_vars
  /\ [](run.pc # "idle" => ProcessedFiles \subseteq {FilePath(f) : f \in Range(run.files)})
  /\ [](run.pc \in {"summarizing", "synthesizing", "done"} =>
          ProcessedFiles = {FilePath(f) : f \in Range(run.files)})

\* a run has ended with its document while the flags are no longer the ones
\* it started from: a file of the run is unselected by now
C31_Witness ==
  /\ run.pc = "done"
  /\ \E f \in Range(run.files) : ~Truthy(GetMap(fileSelection, f.repoPath), f.path)
  /\ ProcessedFiles # {}

-----------------------------------------------------------------------------
(* A folder selection that commits after waiting for listings *)

\* the files shown under the nodes of the given paths
FilesBelow(tree, roots) ==
  UNION {FilesUnder(<< n >>) : n \in {m \in NodesUnder(tree) : m.path \in roots}}

\* C32: when a folder selection commits at the return of a listing it waited
\* for, every file of the repository that is not under the selected nodes
\* keeps the flag it has at that moment.
C32_CommitKeepsOtherFlags ==
  [][\A i \in DOMAIN ops : \A o \in ListingOutcomes : \A ok \in BOOLEAN :
       (TraversalFetched(i, o, ok) /\ event'.kind = "commit") =>
          LET r == ops[i].repo
          IN  \A p \in FilesUnder(GetMap(repoTrees', r)) \ FilesBelow(GetMap(repoTrees', r), event'.roots) :
                Has(GetMap(fileSelection, r), p) =>
                  /\ Has(GetMap(fileSelection', r), p)
                  /\ fileSelection'[r][p] = fileSelection[r][p]]_vars

-----------------------------------------------------------------------------
(* Flags and the files shown *)

\* C33: every path whose flag is true in the selection map of a repository is
\* the path of a file shown in the tree of that repository.
C33_SelectedFilesAreShown ==
  \A r \in DOMAIN fileSelection :
    \A p \in DOMAIN fileSelection[r] :
      fileSelection[r][p] => p \in FilesUnder(GetMap(repoTrees, r))

-----------------------------------------------------------------------------
(* What is left of a repository that was removed *)

\* the repositories that have state of their own in one of the maps
ReposWithState ==
  DOMAIN repoTrees \cup DOMAIN fileSelection \cup DOMAIN expandedFolders
    \cup DOMAIN cacheStatus \cup DOMAIN loadedPaths \cup DOMAIN fileSizes

\* the repository is not in the list and is not being added
NotAdded(r) ==
  /\ r \notin Range(repoPaths)
  /\ \A i \in DOMAIN ops : ~(ops[i].kind = "add" /\ ops[i].repo = r)

\* C34: a repository that is not in the list and is not being added has no
\* tree, no selection map, no expansion flags, no cache marks, no FetchStates
\* and no file sizes; and removing a repository changes none of these for
\* any other repository.
C34_RemovedRepositoryLeavesNothing ==
  /\ [](\A r \in SessionRepos : NotAdded(r) => r \notin ReposWithState)
  /\ [][\A r \in SessionRepos : RemoveRepository(r) =>
          /\ Del(repoTrees', r) = Del(repoTrees, r)
          /\ Del(fileSelection', r) = Del(fileSelection, r)
          /\ Del(expandedFolders', r) = Del(expandedFolders, r)
          /\ Del(cacheStatus', r) = Del(cacheStatus, r)
          /\ Del(loadedPaths', r) = Del(loadedPaths, r)
          /\ Del(fileSizes', r) = Del(fileSizes, r)]_vars

-----------------------------------------------------------------------------
(* The list of repositories *)

\* C35: the list of repositories never holds the same id twice.  Submitting
\* an id that is in the list changes nothing but the notification shown, and
\* every id appended when a root listing request returns was not in the list.
C35_NoRepositoryTwice ==
  /\ [](NoDuplicates(repoPaths))
  /\ [][\A r \in SessionRepos :
          (r \in Range(repoPaths) /\ OnAddRepo(r)) =>
             /\ UNCHANGED << documentation, generatedRepoUrl, isLoading, isFetchingRepo,
                             isFetchingContent, repoTrees, repoPaths, fileSelection,
                             expandedFolders, logs, aiInteractions, cacheStatus,
                             loadedPaths, fileSizes, isPromptModalOpen, editablePrompt,
                             localStorage, ops, run >>
             /\ toasts' = "Repository already added."]_vars
  /\ [][\A i \in DOMAIN ops : \A o \in ListingOutcomes : \A ok \in BOOLEAN :
          AddRepoFetched(i, o, ok) => ops[i].repo \notin Range(repoPaths)]_vars

\* an id of the list has just been submitted again while two repositories
\* are listed
C35_Witness ==
  /\ toasts = "Repository already added."
  /\ Len(repoPaths) = 2


\* C36: an id enters the list of repositories only with its root listing
\* merged: when the root listing request of an onAddRepo fails, the list is
\* left as it was and does not hold the id; and every repository of the list
\* has a tree.
C36_ListedOnlyWithRootListing ==
  /\ [][\A i \in DOMAIN ops : \A o \in ListingFailures : \A ok \in BOOLEAN :
          AddRepoFetched(i, o, ok) =>
             /\ repoPaths' = repoPaths
             /\ ops[i].repo \notin Range(repoPaths')]_vars
  /\ [](\A r \in Range(repoPaths) : Has(repoTrees, r))

-----------------------------------------------------------------------------
(* What the file-content cache holds *)

\* C37: when the provider request for a file of the run fails, or its body
\* is not base64, the return of the request writes nothing to the store; and
\* every file-content entry of the store holds the body the provider has for
\* that file.
C37_OnlyProviderContentCached ==
  /\ [][\A o \in FileOutcomes \ {"ok"} : \A ok \in BOOLEAN :
          FileFetched(o, ok) => localStorage' = localStorage]_vars
  /\ [](\A r \in Repos : \A p \in DOMAIN remote.body :
          LET key == FileCacheKey(r, p)
          IN  Has(localStorage, key) => localStorage[key].content = remote.body[p])

-----------------------------------------------------------------------------
(* The cache keys as text.  A repository id and a path are sequences of      *)
(* characters and a key is the text the template literal produces; the       *)
(* sessions above use ids and paths whose keys differ.                       *)

\* words of 1 to n characters
WordsUpTo(S, n) == UNION {SeqsOfLen(S, k) : k \in 1..n}

\* ids the form accepts: /^[a-zA-Z0-9-]+\/[a-zA-Z0-9-._]+$/ (lines 12-17)
KeyRepoIds ==
  {owner \o << "/" >> \o name :
     owner \in {<< "o" >>, << "o", "-" >>},
     name \in WordsUpTo({"r", "-"}, MaxNameLen)}

RootWord == << "r", "o", "o", "t" >>

\* names a directory or a file of a repository may have
KeySegments == WordsUpTo({"r", "-"}, MaxSegmentLen) \cup {RootWord}

\* paths inside a repository: one name, or a name below a directory
KeyPaths == KeySegments \cup {d \o << "/" >> \o << "r" >> : d \in KeySegments}

\* `repo-cache-${repoPath}-${path || 'root'}` (line 232), as text; the root
\* is the absent path << >>
RepoCacheKeyText(repoPath, path) ==
  << "r", "e", "p", "o", "-", "c", "a", "c", "h", "e", "-" >>
    \o repoPath \o << "-" >> \o (IF path = << >> THEN RootWord ELSE path)

\* `file-content-cache-${file.repoPath}/${file.path}` (lines 372-373), as text
FileCacheKeyText(repoPath, path) ==
  << "f", "i", "l", "e", "-", "c", "o", "n", "t", "e", "n", "t", "-",
     "c", "a", "c", "h", "e", "-" >> \o repoPath \o << "/" >> \o path

\* 'api-keys' (lines 178, 589)
ApiKeysKey == << "a", "p", "i", "-", "k", "e", "y", "s" >>

\* the keys of the listing and of the file content are made for the pair
MakeKeys ==
  /\ keyed.listingKey = << >>
  /\ keyed' = [keyed EXCEPT
                 !.listingKey = RepoCacheKeyText(keyed.repoPath, keyed.path),
                 !.fileKey = IF keyed.path = << >> THEN << >>
                             ELSE FileCacheKeyText(keyed.repoPath, keyed.path)]
  /\ UNCHANGED << hookVars, fsNodes, fsSel, fsResult, flow, gestures, remote >>

KeysNext == MakeKeys

KeysInit ==
  /\ HookInit /\ flow = IdleFlow /\ gestures = 0 /\ remote = FlatRemote
  /\ fsNodes = << >> /\ fsSel = EmptyMap /\ fsResult = "none"
  /\ \E r \in KeyRepoIds, p \in KeyPaths \cup {<< >>} :
       keyed = [NoKeys EXCEPT !.repoPath = r, !.path = p]

SpecKeys == KeysInit /\ [][KeysNext]_vars

\* C38: the cache keys tell their subjects apart.  No other (repository,
\* directory path or root) pair has the listing key of the pair, no other
\* (repository, file path) pair has its file-content key, and no listing key
\* is a file-content key or the credentials key, nor is a file-content key
\* the credentials key.
C38_KeysInjective ==
  keyed.listingKey # << >> =>
    /\ \A r \in KeyRepoIds : \A p \in KeyPaths \cup {<< >>} :
         << r, p >> # << keyed.repoPath, keyed.path >> =>
           RepoCacheKeyText(r, p) # keyed.listingKey
    /\ \A r \in KeyRepoIds : \A p \in KeyPaths :
         /\ (keyed.fileKey # << >> /\ << r, p >> # << keyed.repoPath, keyed.path >>) =>
              FileCacheKeyText(r, p) # keyed.fileKey
         /\ FileCacheKeyText(r, p) # keyed.listingKey
    /\ keyed.listingKey # ApiKeysKey
    /\ keyed.fileKey # ApiKeysKey

-----------------------------------------------------------------------------
(* Directories marked loaded *)

\* a listing request for the directory is outstanding
FetchInFlight(r, path) ==
  \E i \in DOMAIN ops : ops[i].repo = r /\ ops[i].path = path

\* C39: a directory shown in a tree that is marked loaded and has no
\* children either has a listing request outstanding or is listed as empty
\* by the provider.
C39_LoadedDirectoryHasItsChildren ==
  \A r \in DOMAIN repoTrees :
    \A d \in DirsUnder(repoTrees[r]) :
      (Truthy(GetMap(loadedPaths, r), d.path) /\ d.children = << >>) =>
         \/ FetchInFlight(r, d.path)
         \/ ProviderListing(r, d.path) = << >>
====
